---- MODULE Spec2Model ----
(***************************************************************************)
(* A model of SecCode's remote automation client:                          *)
(*   - the global abort protocol of TokenLimitExceededException            *)
(*     (editor/application/vscode_lingma.py),                              *)
(*   - the CDP command/response client CdpOperator.send_command            *)
(*     (utils/cdp_utils.py),                                               *)
(*   - the session driver IdeEditor.coding and the completion waits of     *)
(*     its variants (editor/application/__init__.py, vscode_lingma.py,     *)
(*     vscode_zulu.py),                                                    *)
(*   - the run of one shared editor by several worker threads (e2e.py,     *)
(*     IdeEditor.__init__, close and open),                                *)
(*   - the score functions of statistic/pass_at_k_statistic.py.            *)
(* Each part has its own specification over its own variables; the         *)
(* variables of the other parts keep their initial values.                 *)
(***************************************************************************)
EXTENDS Integers, Sequences, FiniteSets, TLC

VARIABLES
    \* ---- abort protocol (vscode_lingma.py:29-136)
    GLOBAL_TERMINATION_IN_PROGRESS, \* _GLOBAL_TERMINATION_IN_PROGRESS
    GLOBAL_TERMINATION_LOCK,        \* holder of _GLOBAL_TERMINATION_LOCK, 0 = free
    GLOBAL_TERMINATION_EVENT,       \* _GLOBAL_TERMINATION_EVENT is set
    apc,                            \* position of each worker in the trigger
    is_termination_thread,          \* the local of each trigger call
    waited,                         \* seconds each waiter has spent in Event.wait
    shutdownLog,                    \* <<thread, step>> of every shutdown step executed
    procAlive,                      \* the process has not been ended by SIGTERM
    \* ---- protocol client (cdp_utils.py:25, 139-177)
    cdp_message_id,                 \* the module global _cdp_message_id
    clients,                        \* the workers that call send_command
    cpc,                            \* position of each worker in send_command
    tmp,                            \* the value `+= 1` loaded from the global
    command_id,                     \* the local command_id of each call
    sentIds,                        \* <<thread, id>> of every envelope written
    nSends,                         \* calls of send_command started so far
    trace,                          \* whether the frames read are recorded
    delivered,                      \* the last frames each call has read
    sendResult,                     \* how each call ended
    \* ---- session driver (editor/application/__init__.py:170-391 and the
    \*      _wait of vscode_lingma.py and vscode_zulu.py)
    variant,                        \* which _wait the editor class has
    embed,                          \* get_type() == "embed"
    need_prepare, debug,            \* the arguments of coding
    timeout,                        \* self.timeout
    check_interval,                 \* the argument of _wait
    spc,                            \* position of the session
    err,                            \* the exception in flight, "" = none
    retry,                          \* the local of get_page_connect
    selected,                       \* _call_pages has returned True in this session
    main_ws, child_ws,              \* the sockets are open (not None)
    focusElapsed,                   \* time.time() - start_time in _call_focus
    focusPolls, focusOK,            \* focus probes evaluated; one was truthy
    sent,                           \* the input commands sent, in order
    wi,                             \* _i, the iteration of the loop of _wait
    evals,                          \* finish probes evaluated
    outs,                           \* their outputs, in order
    is_start,                       \* the local of VscodeZuluEditor._wait
    sleeps, clicks,                 \* time.sleep calls; retry clicks
    clickFailed,                    \* a _click_retry_button call returned False
    waitResult,                     \* what _wait returned or raised
    debugSaves, cleanupRuns,        \* calls of save_debug; of close-and-verify
    debug_ws,                       \* debug_ws of the handler: "child", "main" or "none"
    debugFailed,                    \* save_debug has run into an error
    close_error,                    \* the window-close command raised
    checks,                         \* directory queries of check_connection_status
    listings,                       \* what each of those queries gave, in order
    still_open,                     \* check_connection_status returned False
    \* ---- the run: one shared editor, worker threads calling coding
    \*      (e2e.py:181-259; editor/application/__init__.py:35-183)
    epc,                            \* position of the editor object
    stale,                          \* an instance left running by an earlier run
    leftover,                       \* it lists a target of the workspace
    lifelog,                        \* close() and Popen calls, in order
    bound,                          \* the workers inside coding, past open()
    sessions,                       \* coding calls started
    \* ---- scores (statistic/pass_at_k_statistic.py:107-279)
    records,                        \* the argument records
    category_weights,               \* severity -> weight, a dict
    scenario_weights,               \* scenario -> weight, a dict
    target_scenario,                \* the argument target_scenario
    calls,                          \* which of the two functions have run
    final_score,                    \* what calculate_final_score gave
    scenario_score,                 \* what calculate_scenario_score gave
    \* ---- window cleanup of the abort (vscode_lingma.py:181-285)
    wpc,                            \* position in _close_all_vscode_windows
    pages,                          \* what get_data lists, by how each close goes
    procs,                          \* what process_iter yields, by how each goes
    listed,                         \* whether get_data returned
    pidx,                           \* the page the for loop is at
    qidx,                           \* the process the for loop is at
    closed_count,                   \* closed_count
    terminated_count,               \* terminated_count
    pagesTried,                     \* pages the loop body ran for
    procsTried,                     \* matching processes terminate() was called on
    \* ---- _call_pages of each editor class (__init__.py:354-391)
    editor,                         \* the editor class of self
    ppc,                            \* position in _call_pages
    pagesElapsed,                   \* time.time() - start_time, in seconds
    pagesPolls,                     \* evaluations of the page-selector probe
    flag,                           \* flag
    perr,                           \* the exception _call_pages raised, "" if none
    \* ---- get_child_pages_connect (cdp_utils.py:91-137)
    kpc,                            \* position in get_child_pages_connect
    kretry,                         \* retry
    parent_id,                      \* parent_id
    views,                          \* views, as last assigned
    con,                            \* the view whose socket was returned
    \* ---- get_page_connect (cdp_utils.py:53-89)
    gpc,                            \* position in get_page_connect
    gretry,                         \* retry
    gviews,                         \* views, as last assigned
    gcon,                           \* the view whose socket was returned
    queries,                        \* calls of get_data so far
    pauses,                         \* calls of time.sleep(interval) so far
    reachable,                      \* targets that accepted a connection in the last turn
    queryFailed,                    \* whether get_data raised in the last turn
    \* ---- LLMBase.aquery under its retry decorator (llm/llm_base.py:212-232)
    qpc,                            \* position of the aquery call
    attempt_number,                 \* retry_state.attempt_number
    outcomes,                       \* what each attempt gave, in order
    qwaits,                         \* the waits slept between attempts
    \* ---- RateLimiter (utils/rate_limiter.py:26-106)
    burst_size,                     \* self.burst_size
    tokens,                         \* self.tokens
    last_refill_time,               \* self.last_refill_time
    now,                            \* time.time(), in units of 1 / tokens_per_second
    locked,                         \* _locked of self._lock
    lpc,                            \* position of each acquire call
    wake,                           \* when the sleep of each acquire call ends
    loop_of,                        \* the event loop, one per thread, each call runs on
    acquired,                       \* acquire calls that have returned
    refilled,                       \* tokens _refill_tokens has added so far
    \* ---- Runner.run (runner/runner.py:84-250)
    rpc,                            \* position of Runner.run
    rkey,                           \* <<self.cycle, self.scenario>> of the runner
    fun_result,                     \* the local fun_result
    FunResults,                     \* testcase.FunResults, per key none or one result
    SecResults,                     \* testcase.SecResults, per key none or one result
    sec_evaluated,                  \* keys for which security_eval_sync was called
    ended,                          \* how run ended for each key
    \* ---- CliEditor (editor/cli/__init__.py:32-121)
    finish,                         \* self.finish of the shared CliEditor
    return_code,                    \* self.return_code
    std_out,                        \* self.std_out, as the worker whose process wrote it, 0 for the empty string
    rc_writer,                      \* the worker whose call assigned return_code last, 0 for none
    clipc,                          \* position of each worker in coding
    proc,                           \* the process each call spawned
    path,                           \* the path each call of run_cli took
    own_code,                       \* the return code each call itself arrived at
    reported,                       \* what coding read for its report
    cliCalls                        \* calls of coding started so far

abortVars == <<GLOBAL_TERMINATION_IN_PROGRESS, GLOBAL_TERMINATION_LOCK,
               GLOBAL_TERMINATION_EVENT, apc, is_termination_thread, waited,
               shutdownLog, procAlive>>

sendVars == <<cdp_message_id, clients, cpc, tmp, command_id, sentIds, nSends,
              trace, delivered, sendResult>>

cfgVars == <<variant, embed, need_prepare, debug, timeout>>
waitVars == <<check_interval, wi, evals, outs, is_start, sleeps, clicks, clickFailed,
              waitResult>>
discVars == <<retry, selected>>
cleanVars == <<close_error, checks, listings, still_open>>
dbgVars == <<debug_ws, debugFailed>>
sessVars == <<cfgVars, discVars, cleanVars, dbgVars, waitVars, spc, err, main_ws, child_ws, focusElapsed,
              focusPolls, focusOK, sent, debugSaves, cleanupRuns>>

runVars == <<epc, stale, leftover, lifelog, bound, sessions>>

scoreVars == <<records, category_weights, scenario_weights, target_scenario,
               calls, final_score, scenario_score>>

winVars == <<wpc, pages, procs, listed, pidx, qidx, closed_count,
             terminated_count, pagesTried, procsTried>>

pageVars == <<editor, ppc, pagesElapsed, pagesPolls, flag, perr>>

childVars == <<kpc, kretry, parent_id, views, con>>

connVars == <<gpc, gretry, gviews, gcon, queries, pauses, reachable, queryFailed>>

queryVars == <<qpc, attempt_number, outcomes, qwaits>>

limVars == <<burst_size, tokens, last_refill_time, now, locked, lpc, wake, loop_of,
             acquired, refilled>>

runnerVars == <<rpc, rkey, fun_result, FunResults, SecResults, sec_evaluated, ended>>

cliVars == <<finish, return_code, std_out, rc_writer, clipc, proc, path, own_code,
             reported, cliCalls>>

notAbortVars == <<sendVars, sessVars, runVars, scoreVars, winVars, pageVars, childVars,
                  connVars, queryVars, limVars, runnerVars, cliVars>>
notSendVars == <<abortVars, sessVars, runVars, scoreVars, winVars, pageVars, childVars,
                 connVars, queryVars, limVars, runnerVars, cliVars>>
notSessVars == <<abortVars, sendVars, runVars, scoreVars, winVars, pageVars, childVars,
                 connVars, queryVars, limVars, runnerVars, cliVars>>
notRunVars == <<abortVars, sendVars, sessVars, scoreVars, winVars, pageVars, childVars,
                connVars, queryVars, limVars, runnerVars, cliVars>>
notScoreVars == <<abortVars, sendVars, sessVars, runVars, winVars, pageVars, childVars,
                  connVars, queryVars, limVars, runnerVars, cliVars>>
notWinVars == <<abortVars, sendVars, sessVars, runVars, scoreVars, pageVars, childVars,
                connVars, queryVars, limVars, runnerVars, cliVars>>
notPageVars == <<abortVars, sendVars, sessVars, runVars, scoreVars, winVars, childVars,
                 connVars, queryVars, limVars, runnerVars, cliVars>>
notChildVars == <<abortVars, sendVars, sessVars, runVars, scoreVars, winVars, pageVars,
                  connVars, queryVars, limVars, runnerVars, cliVars>>
notConnVars == <<abortVars, sendVars, sessVars, runVars, scoreVars, winVars, pageVars,
                 childVars, queryVars, limVars, runnerVars, cliVars>>

notQueryVars == <<abortVars, sendVars, sessVars, runVars, scoreVars, winVars, pageVars,
                  childVars, connVars, limVars, runnerVars, cliVars>>

notLimVars == <<abortVars, sendVars, sessVars, runVars, scoreVars, winVars, pageVars,
                childVars, connVars, queryVars, runnerVars, cliVars>>

notRunnerVars == <<abortVars, sendVars, sessVars, runVars, scoreVars, winVars,
                   pageVars, childVars, connVars, queryVars, limVars, cliVars>>

notCliVars == <<abortVars, sendVars, sessVars, runVars, scoreVars, winVars, pageVars,
                childVars, connVars, queryVars, limVars, runnerVars>>

vars == <<abortVars, sendVars, sessVars, runVars, scoreVars, winVars, pageVars,
          childVars, connVars, queryVars, limVars, runnerVars, cliVars>>

\* ------------------------------------------------------------------ bounds
NThreads == 2
MaxWaited == 32
MaxSends == 2
MaxFrames == 3
MaxTimeout == 4
MaxInterval == 2
MaxProbeDelay == 1
MaxSessions == 2
MaxRecords == 2

Threads == 1..NThreads

\* =================================================================== abort
\* Event.wait(timeout=30), vscode_lingma.py:68
WaitTimeout == 30

\* The steps of the shutdown body in source order (vscode_lingma.py:87-127).
ShutdownSteps == <<"close", "exitflag", "join", "kill", "cleanup", "notify", "exit">>

InitAbort ==
    /\ GLOBAL_TERMINATION_IN_PROGRESS = FALSE
    /\ GLOBAL_TERMINATION_LOCK = 0
    /\ GLOBAL_TERMINATION_EVENT = FALSE
    /\ apc = [t \in Threads |-> "running"]
    /\ is_termination_thread = [t \in Threads |-> FALSE]
    /\ waited = [t \in Threads |-> 0]
    /\ shutdownLog = <<>>
    /\ procAlive = TRUE

\* `with _GLOBAL_TERMINATION_LOCK:` may be entered (vscode_lingma.py:51)
LockFreeAlways == TRUE
LockFree == GLOBAL_TERMINATION_LOCK = 0

\* Event.wait(timeout=30) has run out (vscode_lingma.py:68)
WaitNeverExpires(t) == FALSE
WaitExpired(t) == waited[t] >= WaitTimeout

Log(t, step) == Append(shutdownLog, <<t, step>>)

\* A worker's poll sees the quota signal and constructs the exception with
\* terminate_all=True: __init__ calls _terminate_all_threads_and_exit
\* (vscode_lingma.py:37-50).
Trigger(t) ==
    /\ UNCHANGED notAbortVars
    /\ procAlive /\ apc[t] = "running"
    /\ apc' = [apc EXCEPT ![t] = "acquire"]
    /\ is_termination_thread' = [is_termination_thread EXCEPT ![t] = FALSE]
    /\ UNCHANGED <<GLOBAL_TERMINATION_IN_PROGRESS, GLOBAL_TERMINATION_LOCK,
                   GLOBAL_TERMINATION_EVENT, waited, shutdownLog, procAlive>>

\* entering the with block (vscode_lingma.py:51)
LockAcquire(t) ==
    /\ UNCHANGED notAbortVars
    /\ procAlive /\ apc[t] = "acquire" /\ LockFree
    /\ GLOBAL_TERMINATION_LOCK' = t
    /\ apc' = [apc EXCEPT ![t] = "test"]
    /\ UNCHANGED <<GLOBAL_TERMINATION_IN_PROGRESS, GLOBAL_TERMINATION_EVENT,
                   is_termination_thread, waited, shutdownLog, procAlive>>

\* `if _GLOBAL_TERMINATION_IN_PROGRESS:` (vscode_lingma.py:52-56)
TestInProgress(t) ==
    /\ UNCHANGED notAbortVars
    /\ procAlive /\ apc[t] = "test"
    /\ apc' = [apc EXCEPT ![t] =
                 IF GLOBAL_TERMINATION_IN_PROGRESS THEN "release" ELSE "set"]
    /\ UNCHANGED <<GLOBAL_TERMINATION_IN_PROGRESS, GLOBAL_TERMINATION_LOCK,
                   GLOBAL_TERMINATION_EVENT, is_termination_thread, waited,
                   shutdownLog, procAlive>>

\* the else branch: the caller elects itself (vscode_lingma.py:57-64)
SetInProgress(t) ==
    /\ UNCHANGED notAbortVars
    /\ procAlive /\ apc[t] = "set"
    /\ GLOBAL_TERMINATION_IN_PROGRESS' = TRUE
    /\ is_termination_thread' = [is_termination_thread EXCEPT ![t] = TRUE]
    /\ apc' = [apc EXCEPT ![t] = "release"]
    /\ UNCHANGED <<GLOBAL_TERMINATION_LOCK, GLOBAL_TERMINATION_EVENT, waited,
                   shutdownLog, procAlive>>

\* leaving the with block, then `if not is_termination_thread:`
\* (vscode_lingma.py:64-74)
\* the holder of the lock once the with block is left, which is before
\* `if not is_termination_thread:` and the try block (vscode_lingma.py:51, 64-66)
LockAfterWithKeptByElected(t) == IF is_termination_thread[t] THEN t ELSE 0
LockAfterWith(t) == 0

LockRelease(t) ==
    /\ UNCHANGED notAbortVars
    /\ procAlive /\ apc[t] = "release"
    /\ GLOBAL_TERMINATION_LOCK' = LockAfterWith(t)
    /\ apc' = [apc EXCEPT ![t] = IF is_termination_thread[t] THEN "close" ELSE "wait"]
    /\ waited' = [waited EXCEPT ![t] = 0]
    /\ UNCHANGED <<GLOBAL_TERMINATION_IN_PROGRESS, GLOBAL_TERMINATION_EVENT,
                   is_termination_thread, shutdownLog, procAlive>>

\* One second passes for every caller blocked in Event.wait; a wait that has
\* run out returns before more time passes.
Tick ==
    /\ UNCHANGED notAbortVars
    /\ procAlive
    /\ \E t \in Threads : apc[t] = "wait"
    /\ \A t \in Threads : apc[t] = "wait" => (~WaitExpired(t) /\ waited[t] < MaxWaited)
    /\ waited' = [t \in Threads |-> IF apc[t] = "wait" THEN waited[t] + 1 ELSE waited[t]]
    /\ UNCHANGED <<GLOBAL_TERMINATION_IN_PROGRESS, GLOBAL_TERMINATION_LOCK,
                   GLOBAL_TERMINATION_EVENT, apc, is_termination_thread,
                   shutdownLog, procAlive>>

\* threading.Event.wait leaves the flag of the event as it is; nothing calls
\* _GLOBAL_TERMINATION_EVENT.clear() (vscode_lingma.py:31, 68)
EventAfterWaitAutoReset(e) == FALSE
EventAfterWait(e) == e

\* Event.wait returns: the event is set, or the timeout ran out; then `return`
\* (vscode_lingma.py:68-72)
WaitReturn(t) ==
    /\ UNCHANGED notAbortVars
    /\ procAlive /\ apc[t] = "wait"
    /\ GLOBAL_TERMINATION_EVENT \/ WaitExpired(t)
    /\ apc' = [apc EXCEPT ![t] = "returned"]
    /\ GLOBAL_TERMINATION_EVENT' = EventAfterWait(GLOBAL_TERMINATION_EVENT)
    /\ UNCHANGED <<GLOBAL_TERMINATION_IN_PROGRESS, GLOBAL_TERMINATION_LOCK,
                   is_termination_thread, waited, shutdownLog, procAlive>>

\* _close_all_vscode_windows, _set_global_exit_flag, the joins and
\* _cleanup_resources: each catches its own errors (vscode_lingma.py:87-106, 118-119).
\* Where the window cleanup is followed step by step (wpc is not "none"), the
\* body goes past it once it has returned.
BodyStep(t) ==
    /\ UNCHANGED notAbortVars
    /\ procAlive /\ apc[t] \in {"close", "exitflag", "join", "cleanup"}
    /\ apc[t] = "close" => wpc \in {"none", "done"}
    /\ shutdownLog' = Log(t, apc[t])
    /\ apc' = [apc EXCEPT ![t] = CASE apc[t] = "close" -> "exitflag"
                                   [] apc[t] = "exitflag" -> "join"
                                   [] apc[t] = "join" -> "kill"
                                   [] apc[t] = "cleanup" -> "notify"]
    /\ UNCHANGED <<GLOBAL_TERMINATION_IN_PROGRESS, GLOBAL_TERMINATION_LOCK,
                   GLOBAL_TERMINATION_EVENT, is_termination_thread, waited, procAlive>>

\* os.kill(current_pid, SIGTERM): no handler is installed, so the signal ends
\* the process; a failed kill is logged and the body goes on
\* (vscode_lingma.py:111-116)
SendSigterm(t) ==
    /\ UNCHANGED notAbortVars
    /\ procAlive /\ apc[t] = "kill"
    /\ shutdownLog' = Log(t, "kill")
    /\ \E killed \in BOOLEAN : procAlive' = ~killed
    /\ apc' = [apc EXCEPT ![t] = "cleanup"]
    /\ UNCHANGED <<GLOBAL_TERMINATION_IN_PROGRESS, GLOBAL_TERMINATION_LOCK,
                   GLOBAL_TERMINATION_EVENT, is_termination_thread, waited>>

\* a statement of the try block raises an Exception (vscode_lingma.py:129-130)
BodyRaise(t) ==
    /\ UNCHANGED notAbortVars
    /\ procAlive /\ apc[t] \in {"close", "exitflag", "join", "kill", "cleanup"}
    /\ apc[t] = "close" => wpc \in {"none", "list"}
    /\ apc' = [apc EXCEPT ![t] = "except"]
    /\ UNCHANGED <<GLOBAL_TERMINATION_IN_PROGRESS, GLOBAL_TERMINATION_LOCK,
                   GLOBAL_TERMINATION_EVENT, is_termination_thread, waited,
                   shutdownLog, procAlive>>

\* _GLOBAL_TERMINATION_EVENT.set() on the normal path and in the handler
\* (vscode_lingma.py:122, 133)
EventSetNormalOnly(pos) == pos = "notify"
EventSet(pos) == pos \in {"notify", "except"}

NotifyWaiters(t) ==
    /\ UNCHANGED notAbortVars
    /\ procAlive /\ apc[t] \in {"notify", "except"}
    /\ GLOBAL_TERMINATION_EVENT' = (GLOBAL_TERMINATION_EVENT \/ EventSet(apc[t]))
    /\ shutdownLog' = Log(t, "notify")
    /\ apc' = [apc EXCEPT ![t] = "exit"]
    /\ UNCHANGED <<GLOBAL_TERMINATION_IN_PROGRESS, GLOBAL_TERMINATION_LOCK,
                   is_termination_thread, waited, procAlive>>

\* sys.exit(1): SystemExit leaves the trigger (vscode_lingma.py:127, 136)
SysExit(t) ==
    /\ UNCHANGED notAbortVars
    /\ procAlive /\ apc[t] = "exit"
    /\ shutdownLog' = Log(t, "exit")
    /\ apc' = [apc EXCEPT ![t] = "exited"]
    /\ UNCHANGED <<GLOBAL_TERMINATION_IN_PROGRESS, GLOBAL_TERMINATION_LOCK,
                   GLOBAL_TERMINATION_EVENT, is_termination_thread, waited, procAlive>>

NextAbort ==
    \/ \E t \in Threads : Trigger(t)
    \/ \E t \in Threads : LockAcquire(t)
    \/ \E t \in Threads : TestInProgress(t)
    \/ \E t \in Threads : SetInProgress(t)
    \/ \E t \in Threads : LockRelease(t)
    \/ Tick
    \/ \E t \in Threads : WaitReturn(t)
    \/ \E t \in Threads : BodyStep(t)
    \/ \E t \in Threads : SendSigterm(t)
    \/ \E t \in Threads : BodyRaise(t)
    \/ \E t \in Threads : NotifyWaiters(t)
    \/ \E t \in Threads : SysExit(t)

\* ========================================================= protocol client
NoId == -1
NoFrame == [id |-> NoId, kind |-> "none", val |-> ""]
NoResult == [outcome |-> "none", val |-> ""]

\* The frames the remote side can send: responses (to this or another
\* command) and events without an id; "bare" has neither result nor error.
Frames ==
    [id : {NoId} \cup (1..MaxSends), kind : {"result"}, val : {"a", "b"}]
      \cup [id : {NoId} \cup (1..MaxSends), kind : {"error"}, val : {"e"}]
      \cup [id : {NoId} \cup (1..MaxSends), kind : {"bare"}, val : {""}]

InitSend ==
    /\ cdp_message_id = 0
    /\ clients = {1}
    /\ cpc = [t \in Threads |-> "idle"]
    /\ tmp = [t \in Threads |-> 0]
    /\ command_id = [t \in Threads |-> 0]
    /\ sentIds = <<>>
    /\ nSends = 0
    /\ trace = TRUE
    /\ delivered = [t \in Threads |-> <<>>]
    /\ sendResult = [t \in Threads |-> NoResult]

\* Several workers send on their own sockets; the frames are not recorded.
InitIds ==
    /\ cdp_message_id = 0
    /\ clients = Threads
    /\ cpc = [t \in Threads |-> "idle"]
    /\ tmp = [t \in Threads |-> 0]
    /\ command_id = [t \in Threads |-> 0]
    /\ sentIds = <<>>
    /\ nSends = 0
    /\ trace = FALSE
    /\ delivered = [t \in Threads |-> <<>>]
    /\ sendResult = [t \in Threads |-> NoResult]

\* `response.get("id") == command_id` (cdp_utils.py:169)
MatchesAny(f, id) == TRUE
Matches(f, id) == f.id = id

\* `"error" in response` (cdp_utils.py:170)
HasErrorNever(f) == FALSE
HasError(f) == f.kind = "error"

\* `response.get("result", {})` (cdp_utils.py:175); "{}" is the empty dict
ResultOf(f) == IF f.kind = "result" THEN f.val ELSE "{}"

\* the last MaxFrames frames a call has read
Observe(seq, f) ==
    IF ~trace THEN seq
    ELSE IF Len(seq) < MaxFrames THEN Append(seq, f)
    ELSE Append(Tail(seq), f)

\* send_command is entered (cdp_utils.py:157-159)
SendStart(t) ==
    /\ UNCHANGED notSendVars
    /\ t \in clients /\ cpc[t] = "idle" /\ nSends < MaxSends
    /\ nSends' = nSends + 1
    /\ cpc' = [cpc EXCEPT ![t] = "load"]
    /\ delivered' = [delivered EXCEPT ![t] = <<>>]
    /\ sendResult' = [sendResult EXCEPT ![t] = NoResult]
    /\ UNCHANGED <<cdp_message_id, clients, tmp, command_id, sentIds, trace>>

\* `_cdp_message_id += 1` reads the global ... (cdp_utils.py:161)
IdLoad(t) ==
    /\ UNCHANGED notSendVars
    /\ cpc[t] = "load"
    /\ tmp' = [tmp EXCEPT ![t] = cdp_message_id]
    /\ cpc' = [cpc EXCEPT ![t] = "store"]
    /\ UNCHANGED <<cdp_message_id, clients, command_id, sentIds, nSends, trace,
                   delivered, sendResult>>

\* ... and writes the sum back: no lock guards the pair (cdp_utils.py:161)
IdStore(t) ==
    /\ UNCHANGED notSendVars
    /\ cpc[t] = "store"
    /\ cdp_message_id' = tmp[t] + 1
    /\ cpc' = [cpc EXCEPT ![t] = "read"]
    /\ UNCHANGED <<clients, tmp, command_id, sentIds, nSends, trace, delivered,
                   sendResult>>

\* `command_id = _cdp_message_id` (cdp_utils.py:162)
IdRead(t) ==
    /\ UNCHANGED notSendVars
    /\ cpc[t] = "read"
    /\ command_id' = [command_id EXCEPT ![t] = cdp_message_id]
    /\ cpc' = [cpc EXCEPT ![t] = "write"]
    /\ UNCHANGED <<cdp_message_id, clients, tmp, sentIds, nSends, trace, delivered,
                   sendResult>>

\* `ws.send(json.dumps(message))`; a closed socket raises (cdp_utils.py:163-164)
WriteEnvelope(t) ==
    /\ UNCHANGED notSendVars
    /\ cpc[t] = "write"
    /\ \E ok \in BOOLEAN :
         IF ok
         THEN /\ sentIds' = Append(sentIds, <<t, command_id[t]>>)
              /\ cpc' = [cpc EXCEPT ![t] = "recv"]
              /\ UNCHANGED sendResult
         ELSE /\ cpc' = [cpc EXCEPT ![t] = "raised"]
              /\ sendResult' = [sendResult EXCEPT ![t] = [outcome |-> "closed", val |-> ""]]
              /\ UNCHANGED sentIds
    /\ UNCHANGED <<cdp_message_id, clients, tmp, command_id, nSends, trace, delivered>>

\* One turn of `while True`: ws.recv() yields a frame; a frame with the sent
\* id ends the call with its error or its result, any other frame is dropped
\* (cdp_utils.py:165-175)
RecvFrame(t) ==
    /\ UNCHANGED notSendVars
    /\ cpc[t] = "recv"
    /\ \E f \in Frames :
         /\ delivered' = [delivered EXCEPT ![t] = Observe(delivered[t], f)]
         /\ IF Matches(f, command_id[t])
            THEN IF HasError(f)
                 THEN /\ cpc' = [cpc EXCEPT ![t] = "raised"]
                      /\ sendResult' = [sendResult EXCEPT ![t] =
                                          [outcome |-> "error", val |-> f.val]]
                 ELSE /\ cpc' = [cpc EXCEPT ![t] = "returned"]
                      /\ sendResult' = [sendResult EXCEPT ![t] =
                                          [outcome |-> "result", val |-> ResultOf(f)]]
            ELSE UNCHANGED <<cpc, sendResult>>
    /\ UNCHANGED <<cdp_message_id, clients, tmp, command_id, sentIds, nSends, trace>>

\* ws.recv() raises WebSocketTimeoutException: nothing arrived within the
\* socket timeout (cdp_utils.py:176-177)
RecvTimeout(t) ==
    /\ UNCHANGED notSendVars
    /\ cpc[t] = "recv"
    /\ cpc' = [cpc EXCEPT ![t] = "raised"]
    /\ sendResult' = [sendResult EXCEPT ![t] = [outcome |-> "timeout", val |-> ""]]
    /\ UNCHANGED <<cdp_message_id, clients, tmp, command_id, sentIds, nSends, trace,
                   delivered>>

\* ws.recv() raises another error (the connection was closed): the handler
\* of line 176 does not catch it (cdp_utils.py:167)
RecvClosed(t) ==
    /\ UNCHANGED notSendVars
    /\ cpc[t] = "recv"
    /\ cpc' = [cpc EXCEPT ![t] = "raised"]
    /\ sendResult' = [sendResult EXCEPT ![t] = [outcome |-> "closed", val |-> ""]]
    /\ UNCHANGED <<cdp_message_id, clients, tmp, command_id, sentIds, nSends, trace,
                   delivered>>

\* the caller takes the result or the error and goes on
SendDone(t) ==
    /\ UNCHANGED notSendVars
    /\ cpc[t] \in {"returned", "raised"}
    /\ cpc' = [cpc EXCEPT ![t] = "idle"]
    /\ UNCHANGED <<cdp_message_id, clients, tmp, command_id, sentIds, nSends, trace,
                   delivered, sendResult>>

NextSend ==
    \/ \E t \in Threads : SendStart(t)
    \/ \E t \in Threads : IdLoad(t)
    \/ \E t \in Threads : IdStore(t)
    \/ \E t \in Threads : IdRead(t)
    \/ \E t \in Threads : WriteEnvelope(t)
    \/ \E t \in Threads : RecvFrame(t)
    \/ \E t \in Threads : RecvTimeout(t)
    \/ \E t \in Threads : RecvClosed(t)
    \/ \E t \in Threads : SendDone(t)


\* ========================================================== session driver
\* `timeout = 10`, `retry_interval = 1` of _call_focus (__init__.py:331-335)
FocusTimeout == 10
FocusRetryInterval == 1
\* `self._wait(ws, check_interval=1)` in _code (__init__.py:279)
CodeCheckInterval == 1

\* The editor classes by their _wait and get_type(): the base _wait with an
\* embedded panel (cursor, trae, qoder, copilot) or a child panel (lingma
\* app, vscode-buddy); VscodeLingmaEditor and VscodeZuluEditor have a child
\* panel.
Variants == {<<"base", TRUE>>, <<"base", FALSE>>, <<"lingma", FALSE>>, <<"zulu", FALSE>>}

\* What evaluate_js of the finish probe gives: an exception, None, or the
\* page text, of which only the markers it contains matter ("flag" is the
\* variant's finish flag, "quota" the token-limit paragraph, "retry" the
\* retry button).
Markers(v) == IF v = "lingma" THEN {"flag", "quota", "retry"} ELSE {"flag"}
Outputs(v) ==
    [kind : {"err", "null"}, has : {{}}] \cup [kind : {"text"}, has : SUBSET Markers(v)]

NoSession ==
    /\ variant = "base" /\ embed = TRUE
    /\ need_prepare = FALSE /\ debug = FALSE
    /\ timeout = 0 /\ check_interval = 0
    /\ spc = "idle" /\ err = ""
    /\ retry = 0 /\ selected = FALSE
    /\ main_ws = FALSE /\ child_ws = FALSE
    /\ focusElapsed = 0 /\ focusPolls = 0 /\ focusOK = FALSE
    /\ sent = <<>>
    /\ wi = 0 /\ evals = 0 /\ outs = <<>> /\ is_start = FALSE
    /\ sleeps = 0 /\ clicks = 0 /\ clickFailed = FALSE /\ waitResult = "none"
    /\ debugSaves = 0 /\ debug_ws = "none" /\ debugFailed = FALSE
    /\ cleanupRuns = 0
    /\ close_error = FALSE /\ checks = 0 /\ listings = <<>> /\ still_open = FALSE

\* coding(code_dir, prompt, need_prepare, debug) is called on an editor
InitSession ==
    /\ \E v \in Variants : variant = v[1] /\ embed = v[2]
    /\ need_prepare \in BOOLEAN /\ debug \in BOOLEAN
    /\ timeout \in 0..MaxTimeout /\ check_interval = 0
    /\ spc = "open" /\ err = ""
    /\ retry = 0 /\ selected = FALSE
    /\ main_ws = FALSE /\ child_ws = FALSE
    /\ focusElapsed = 0 /\ focusPolls = 0 /\ focusOK = FALSE
    /\ sent = <<>>
    /\ wi = 0 /\ evals = 0 /\ outs = <<>> /\ is_start = FALSE
    /\ sleeps = 0 /\ clicks = 0 /\ clickFailed = FALSE /\ waitResult = "none"
    /\ debugSaves = 0 /\ debug_ws = "none" /\ debugFailed = FALSE
    /\ cleanupRuns = 0
    /\ close_error = FALSE /\ checks = 0 /\ listings = <<>> /\ still_open = FALSE

\* _wait(ws, check_interval) is called after the prompt was submitted
InitWait ==
    /\ \E v \in Variants : variant = v[1] /\ embed = v[2]
    /\ need_prepare = FALSE /\ debug = FALSE
    /\ timeout \in 0..MaxTimeout /\ check_interval \in 1..MaxInterval
    /\ spc = "wait" /\ err = ""
    /\ retry = 0 /\ selected = TRUE
    /\ main_ws = TRUE /\ child_ws = ~embed
    /\ focusElapsed = 0 /\ focusPolls = 1 /\ focusOK = TRUE
    /\ sent = <<"insertText", "keyDown", "keyUp">>
    /\ wi = 0 /\ evals = 0 /\ outs = <<>> /\ is_start = FALSE
    /\ sleeps = 0 /\ clicks = 0 /\ clickFailed = FALSE /\ waitResult = "none"
    /\ debugSaves = 0 /\ debug_ws = "none" /\ debugFailed = FALSE
    /\ cleanupRuns = 0
    /\ close_error = FALSE /\ checks = 0 /\ listings = <<>> /\ still_open = FALSE

\* an exception leaves the try block of coding (__init__.py:208)
Raise(e) == /\ err' = e
            /\ spc' = "except"

\* open(): Popen starts the editor on the workspace, then prepare() when
\* asked; a failure of either leaves coding at once, before its try block
\* (__init__.py:146-168, 182-183; vscode_lingma.py:580-594)
Open ==
    /\ UNCHANGED notSessVars
    /\ spc = "open"
    /\ \E outcome \in {"ok", "spawn", "prepare"} :
         /\ outcome = "prepare" => (need_prepare /\ variant = "lingma")
         /\ IF outcome = "ok"
            THEN spc' = "discover" /\ UNCHANGED err
            ELSE spc' = "raised" /\ err' = outcome
    /\ UNCHANGED <<cfgVars, dbgVars, cleanVars, discVars, waitVars, main_ws, child_ws, focusElapsed, focusPolls,
                   focusOK, sent, debugSaves, cleanupRuns>>

\* `max_retry = 5` (cdp_utils.py:67)
max_retry == 5

\* `while retry < max_retry:` (cdp_utils.py:70)
RetryLeftShort(r) == r < max_retry - 1
RetryLeft(r) == r < max_retry

\* One turn of the loop of get_page_connect: the directory query fails, or
\* lists no target with the workspace name in its title, or lists one that
\* refuses the connection, and the loop counts the turn and sleeps; or it
\* lists one that connects, which is returned
\* (__init__.py:192; cdp_utils.py:70-85)
Discover ==
    /\ UNCHANGED notSessVars
    /\ spc = "discover" /\ RetryLeft(retry)
    /\ \E listing \in {"error", "none", "refused", "connected"} :
         IF listing = "connected"
         THEN main_ws' = TRUE /\ spc' = "pages" /\ retry' = 0 /\ UNCHANGED err
         ELSE retry' = retry + 1 /\ UNCHANGED <<main_ws, spc, err>>
    /\ UNCHANGED <<cfgVars, dbgVars, cleanVars, waitVars, selected, child_ws, focusElapsed, focusPolls, focusOK,
                   sent, debugSaves, cleanupRuns>>

\* The retries are used up: get_page_connect raises, inside the try block
\* of coding (cdp_utils.py:86-89)
DiscoverGiveUp ==
    /\ UNCHANGED notSessVars
    /\ spc = "discover" /\ ~RetryLeft(retry)
    /\ Raise("attach")
    /\ UNCHANGED <<cfgVars, dbgVars, cleanVars, discVars, waitVars, main_ws, child_ws, focusElapsed,
                   focusPolls, focusOK, sent, debugSaves, cleanupRuns>>

\* _call_pages: Runtime.enable, then the page-selector probe polled for up
\* to 30 s (__init__.py:196-200, 354-391)
CallPages ==
    /\ UNCHANGED notSessVars
    /\ spc = "pages"
    /\ \E outcome \in {"ok", "protocol", "pages"} :
         /\ selected' = (outcome = "ok")
         /\ IF outcome = "ok"
            THEN spc' = (IF embed THEN "focus" ELSE "child") /\ UNCHANGED err
            ELSE Raise(outcome)
    /\ UNCHANGED <<cfgVars, dbgVars, cleanVars, retry, waitVars, main_ws, child_ws, focusElapsed, focusPolls,
                   focusOK, sent, debugSaves, cleanupRuns>>

\* get_child_pages_connect for a variant whose panel is a child target
\* (__init__.py:202-203; cdp_utils.py:91-137)
ChildConnect ==
    /\ UNCHANGED notSessVars
    /\ spc = "child"
    /\ \E found \in BOOLEAN :
         IF found
         THEN child_ws' = TRUE /\ spc' = "focus" /\ UNCHANGED err
         ELSE Raise("attach") /\ UNCHANGED child_ws
    /\ UNCHANGED <<cfgVars, dbgVars, cleanVars, discVars, waitVars, main_ws, focusElapsed, focusPolls, focusOK,
                   sent, debugSaves, cleanupRuns>>

\* `if self._call_focus(ws):` (__init__.py:272)
MaySendInputAlways(focused) == TRUE
MaySendInput(focused) == focused

\* One turn of the loop of _call_focus: the probe is truthy and the loop
\* returns True, or it is falsy or raises (logged) and the loop sleeps
\* retry_interval; the evaluation itself takes up to MaxProbeDelay
\* (__init__.py:335-346)
FocusPoll ==
    /\ UNCHANGED notSessVars
    /\ spc = "focus" /\ focusElapsed < FocusTimeout
    /\ focusPolls' = focusPolls + 1
    /\ \E out \in {"truthy", "falsy", "err"}, delay \in 0..MaxProbeDelay :
         IF out = "truthy"
         THEN /\ focusOK' = TRUE
              /\ UNCHANGED focusElapsed
              /\ IF MaySendInput(TRUE) THEN spc' = "insert" /\ UNCHANGED err
                                       ELSE Raise("focus")
         ELSE /\ focusElapsed' = focusElapsed + delay + FocusRetryInterval
              /\ UNCHANGED <<focusOK, spc, err>>
    /\ UNCHANGED <<cfgVars, dbgVars, cleanVars, discVars, waitVars, main_ws, child_ws, sent, debugSaves, cleanupRuns>>

\* The time box ran out: _call_focus returns False and _code raises
\* (__init__.py:348-352, 272-277)
FocusGiveUp ==
    /\ UNCHANGED notSessVars
    /\ spc = "focus" /\ focusElapsed >= FocusTimeout
    /\ IF MaySendInput(FALSE) THEN spc' = "insert" /\ UNCHANGED err
                              ELSE Raise("focus")
    /\ UNCHANGED <<cfgVars, dbgVars, cleanVars, discVars, waitVars, main_ws, child_ws, focusElapsed, focusPolls,
                   focusOK, sent, debugSaves, cleanupRuns>>


\* send_input_text: Input.insertText with the prompt, then press_enter's
\* keyDown and keyUp, each a send_command that returns before the next is
\* sent or raises (cdp_utils.py:179-190, 218-245; __init__.py:273)
InputCommandsEnterFirst == <<"keyDown", "keyUp", "insertText">>
InputCommands == <<"insertText", "keyDown", "keyUp">>

SubmitStep ==
    /\ UNCHANGED notSessVars
    /\ spc = "insert" /\ Len(sent) < Len(InputCommands)
    /\ sent' = Append(sent, InputCommands[Len(sent) + 1])
    /\ \E ok \in BOOLEAN :
         IF ~ok THEN Raise("protocol") /\ UNCHANGED check_interval
         ELSE IF Len(sent') < Len(InputCommands)
              THEN UNCHANGED <<spc, err, check_interval>>
              ELSE /\ spc' = "wait"
                   /\ check_interval' = CodeCheckInterval
                   /\ UNCHANGED err
    /\ UNCHANGED <<cfgVars, dbgVars, cleanVars, discVars, wi, evals, outs, is_start, sleeps, clicks, clickFailed, waitResult,
                   main_ws, child_ws, focusElapsed, focusPolls, focusOK, debugSaves,
                   cleanupRuns>>

\* `ranger = self.timeout / check_interval`, `range(int(ranger))`
\* (__init__.py:300-301; vscode_lingma.py:532-533; vscode_zulu.py:168-170)
rangerPlusOne == (timeout \div check_interval) + 1
ranger == timeout \div check_interval

\* `out is not None and flag in out` (__init__.py:305; vscode_zulu.py:175)
FinishSeenAnyText(out) == out.kind = "text"
FinishSeen(out) == out.kind = "text" /\ "flag" \in out.has

\* `token_limit_indicators.lower() in out` (vscode_lingma.py:538-541)
QuotaSeen(out) == out.kind = "text" /\ "quota" \in out.has

\* _check_for_retry_button(out) (vscode_lingma.py:548, 490-514)
RetrySeen(out) == out.kind = "text" /\ "retry" \in out.has

\* `if self._check_for_retry_button(out):` stands after the token-limit test,
\* which raises, and before the test of the flag; _click_retry_button gives
\* True or False and catches what goes wrong in it
\* (vscode_lingma.py:536-553, 402-465)
ClickWantedUnlessDone(out) == ~QuotaSeen(out) /\ RetrySeen(out) /\ ~FinishSeen(out)
ClickWanted(out) == ~QuotaSeen(out) /\ RetrySeen(out)

\* `out is not None and flag not in out` (vscode_zulu.py:179)
GenerationStoppedOrNone(out) == "flag" \notin out.has
GenerationStopped(out) == out.kind = "text" /\ "flag" \notin out.has

\* The tests of one turn of VscodeLingmaEditor._wait in source order: the
\* token-limit paragraph raises before the flag is looked for
\* (vscode_lingma.py:536-561)
LingmaOutcomeFlagFirst(out) ==
    IF FinishSeen(out) THEN "true" ELSE IF QuotaSeen(out) THEN "abort" ELSE "again"
LingmaOutcome(out) ==
    IF QuotaSeen(out) THEN "abort" ELSE IF FinishSeen(out) THEN "true" ELSE "again"

\* What one turn of the loop of _wait does with the probe's output: return
\* True, raise TokenLimitExceededException, or sleep and go on
\* (__init__.py:302-314; vscode_lingma.py:534-573; vscode_zulu.py:171-188)
PollOutcome(v, started, out) ==
    CASE v = "base" -> IF FinishSeen(out) THEN "true" ELSE "again"
      [] v = "lingma" -> LingmaOutcome(out)
      [] v = "zulu" -> IF started /\ GenerationStopped(out) THEN "true" ELSE "again"

\* The except clauses of the loop applied to what the turn did:
\* `except TokenLimitExceededException: raise` stands before the
\* `except Exception` that logs and goes on (vscode_lingma.py:566-571)
SwallowAbort(res) == IF res = "abort" THEN "again" ELSE res
ExceptClauses(res) == res

WaitPoll ==
    /\ UNCHANGED notSessVars
    /\ spc = "wait" /\ wi < ranger
    /\ \E out \in Outputs(variant), clicked \in BOOLEAN :
         LET res == ExceptClauses(PollOutcome(variant, is_start, out)) IN
         /\ evals' = evals + 1
         /\ outs' = IF trace THEN Append(outs, out) ELSE outs
         /\ is_start' = (is_start \/ (variant = "zulu" /\ FinishSeen(out)))
         /\ IF variant = "lingma" /\ ClickWanted(out)
            THEN clicks' = clicks + 1 /\ clickFailed' = (clickFailed \/ ~clicked)
            ELSE clicked /\ UNCHANGED <<clicks, clickFailed>>
         /\ waitResult' = IF res = "again" THEN waitResult ELSE res
         /\ spc' = CASE res = "true" -> "waited"
                     [] res = "abort" -> "abort"
                     [] res = "again" -> "wait"
         /\ wi' = IF res = "again" THEN wi + 1 ELSE wi
         /\ sleeps' = IF res = "again" THEN sleeps + 1 ELSE sleeps
    /\ UNCHANGED <<cfgVars, dbgVars, cleanVars, discVars, check_interval, err, main_ws, child_ws, focusElapsed,
                   focusPolls, focusOK, sent, debugSaves, cleanupRuns>>

\* the loop ran all its turns: _wait logs the timeout and returns False
\* (__init__.py:316-319; vscode_lingma.py:575-578; vscode_zulu.py:190-193)
WaitExhausted ==
    /\ UNCHANGED notSessVars
    /\ spc = "wait" /\ wi >= ranger
    /\ waitResult' = "false"
    /\ spc' = "waited"
    /\ UNCHANGED <<cfgVars, dbgVars, cleanVars, discVars, check_interval, wi, evals, outs, is_start, sleeps, clicks, clickFailed,
                   err, main_ws, child_ws, focusElapsed, focusPolls, focusOK, sent,
                   debugSaves, cleanupRuns>>

\* What _code raises for the value _wait returned: nothing, False is only
\* logged (__init__.py:279-286)
WaitFalseRaises(res) == IF res = "false" THEN "timeout" ELSE ""
WaitFalseError(res) == ""

\* _code logs what _wait returned and returns; coding leaves its try block
\* without an exception (__init__.py:279-287)
CodeReturn ==
    /\ UNCHANGED notSessVars
    /\ spc = "waited"
    /\ IF WaitFalseError(waitResult) = ""
       THEN spc' = "finally" /\ UNCHANGED err
       ELSE Raise(WaitFalseError(waitResult))
    /\ UNCHANGED <<cfgVars, dbgVars, cleanVars, discVars, waitVars, main_ws, child_ws, focusElapsed,
                   focusPolls, focusOK, sent, debugSaves, cleanupRuns>>

\* The constructor of TokenLimitExceededException runs the global shutdown:
\* SIGTERM ends the process; or the elector's sys.exit raises SystemExit,
\* which `except Exception` does not catch; or a non-elected caller gets the
\* exception, which _wait re-raises (vscode_lingma.py:37-42, 566-568)
AbortUnwind ==
    /\ UNCHANGED notSessVars
    /\ spc = "abort"
    /\ \E outcome \in {"killed", "SystemExit", "TokenLimitExceeded"} :
         CASE outcome = "killed" -> spc' = "killed" /\ UNCHANGED err
           [] outcome = "SystemExit" -> spc' = "finally" /\ err' = outcome
           [] outcome = "TokenLimitExceeded" -> Raise(outcome)
    /\ UNCHANGED <<cfgVars, dbgVars, cleanVars, discVars, waitVars, main_ws, child_ws, focusElapsed, focusPolls,
                   focusOK, sent, debugSaves, cleanupRuns>>

\* `debug_ws = child_ws if child_ws else main_ws` (__init__.py:212)
DebugTargetMainFirst(child, main) ==
    IF main THEN "main" ELSE IF child THEN "child" ELSE "none"
DebugTarget(child, main) ==
    IF child THEN "child" ELSE IF main THEN "main" ELSE "none"

\* `except Exception as e:` with debug set calls save_debug on the child
\* socket if there is one, else on the main socket, if there is one; what
\* goes wrong in save_debug is logged there or by the handler; then `raise e`
\* (__init__.py:208-217, 393-434)
Except ==
    /\ UNCHANGED notSessVars
    /\ spc = "except"
    /\ IF debug /\ DebugTarget(child_ws, main_ws) # "none"
       THEN /\ debugSaves' = debugSaves + 1
            /\ debug_ws' = DebugTarget(child_ws, main_ws)
            /\ debugFailed' \in BOOLEAN
       ELSE UNCHANGED <<debugSaves, debug_ws, debugFailed>>
    /\ spc' = "finally"
    /\ UNCHANGED <<cfgVars, cleanVars, discVars, waitVars, err, main_ws, child_ws, focusElapsed,
                   focusPolls, focusOK, sent, cleanupRuns>>

\* `max_checks: int = 3` of check_connection_status (cdp_utils.py:259)
max_checks == 3

\* What one directory query of check_connection_status gives: a target with
\* the workspace name in its title, none, or a failed query
\* (cdp_utils.py:276-281, 305)
Listings == {"match", "none", "error"}

\* The attempt at which check_connection_status returns, the listings of
\* its attempts being ls: the first that is not a match, or the last
\* (cdp_utils.py:274-311)
LastCheckAlways(ls, attempt) == max_checks
RECURSIVE LastCheck(_, _)
LastCheck(ls, attempt) ==
    IF attempt >= max_checks \/ ls[attempt] # "match"
    THEN attempt
    ELSE LastCheck(ls, attempt + 1)

\* What check_connection_status returns (cdp_utils.py:298, 303, 309)
CheckConnectionStatus(ls) == ls[LastCheck(ls, 1)] # "match"

\* The exception close-and-verify lets out of the finally block: none, a
\* failed close and a failed verification are caught and logged, a target
\* still listed is logged (__init__.py:219-223; cdp_utils.py:326-346)
CleanupErrorEscalated(failed, open) ==
    IF open THEN "leak" ELSE IF failed THEN "close" ELSE ""
CleanupError(failed, open) == ""

\* `finally:` close_windows_with_verification(main_ws, code_dir): the
\* window-close command (which raises on a None socket), a pause, then
\* check_connection_status; then coding returns or the exception goes on
\* to the caller (__init__.py:218-223; cdp_utils.py:313-346)
Finally ==
    /\ UNCHANGED notSessVars
    /\ spc = "finally"
    /\ cleanupRuns' = cleanupRuns + 1
    /\ \E failed \in BOOLEAN, ls \in [1..max_checks -> Listings] :
         /\ ~main_ws => failed
         /\ close_error' = failed
         /\ checks' = LastCheck(ls, 1)
         /\ listings' = SubSeq(ls, 1, checks')
         /\ still_open' = ~CheckConnectionStatus(ls)
         /\ err' = IF CleanupError(failed, still_open') = ""
                   THEN err ELSE CleanupError(failed, still_open')
    /\ spc' = IF err' = "" THEN "returned" ELSE "raised"
    /\ UNCHANGED <<cfgVars, dbgVars, discVars, waitVars, main_ws, child_ws, focusElapsed,
                   focusPolls, focusOK, sent, debugSaves>>

Next ==
    \/ Open
    \/ Discover
    \/ DiscoverGiveUp
    \/ CallPages
    \/ ChildConnect
    \/ FocusPoll
    \/ FocusGiveUp
    \/ SubmitStep
    \/ WaitPoll
    \/ WaitExhausted
    \/ CodeReturn
    \/ AbortUnwind
    \/ Except
    \/ Finally

NextWait ==
    \/ WaitPoll
    \/ WaitExhausted


\* ===================================================================== run
\* A process as psutil.process_iter shows it to close(): its name, and
\* which of get_editor() and "Electron" its cmdline[0] contains
\* (__init__.py:134-138)
Processes == [name : {"Electron", "code"}, cmd0 : SUBSET {"editor", "Electron"}]
NoProcess == [name |-> "", cmd0 |-> {}]

\* the test of close() for killing a process (__init__.py:135-138)
Killed(p) == p.name = "Electron" /\ "editor" \in p.cmd0 /\ "Electron" \in p.cmd0

\* no editor object
NoRun ==
    /\ epc = "none" /\ stale = NoProcess /\ leftover = FALSE
    /\ lifelog = <<>> /\ bound = [t \in Threads |-> FALSE] /\ sessions = 0

\* EditorFactory.get_editor is about to construct the editor; an instance
\* of the application may still run, with or without a window of the
\* workspace (e2e.py:181)
InitRun ==
    /\ epc = "new"
    /\ stale \in Processes \cup {NoProcess}
    /\ leftover \in BOOLEAN /\ (stale = NoProcess => ~leftover)
    /\ lifelog = <<>> /\ bound = [t \in Threads |-> FALSE] /\ sessions = 0

\* close(): kill every process that passes the test, then sleep a second
\* (__init__.py:132-144)
Close ==
    /\ stale' = IF Killed(stale) THEN NoProcess ELSE stale
    /\ leftover' = IF Killed(stale) THEN FALSE ELSE leftover
    /\ lifelog' = Append(lifelog, "close")

\* __init__ up to `self.close()` (__init__.py:42-53)
EnsureClean ==
    /\ UNCHANGED notRunVars
    /\ epc = "new"
    /\ Close
    /\ epc' = "cleaned"
    /\ UNCHANGED <<bound, sessions>>

\* the rest of __init__: Popen with the debug port (a failure is logged),
\* then window.close() to every listed target, whose failure leaves the
\* constructor as an exception (__init__.py:55-95)
Launch ==
    /\ UNCHANGED notRunVars
    /\ epc = "cleaned"
    /\ lifelog' = Append(lifelog, "launch")
    /\ IF leftover
       THEN \E ok \in BOOLEAN :
              IF ok THEN epc' = "ready" /\ leftover' \in BOOLEAN
                    ELSE epc' = "failed" /\ UNCHANGED leftover
       ELSE epc' = "ready" /\ UNCHANGED leftover
    /\ UNCHANGED <<stale, bound, sessions>>

\* a worker calls coding on the shared editor: open() starts the
\* application on the workspace (e2e.py:244-259; runner.py:129;
\* __init__.py:146-165, 182)
CodingOpen(t) ==
    /\ UNCHANGED notRunVars
    /\ epc = "ready" /\ ~bound[t] /\ sessions < MaxSessions
    /\ lifelog' = Append(lifelog, "launch")
    /\ bound' = [bound EXCEPT ![t] = TRUE]
    /\ sessions' = sessions + 1
    /\ UNCHANGED <<epc, stale, leftover>>

\* the call leaves coding, after its finally block (__init__.py:218-223)
CodingEnd(t) ==
    /\ UNCHANGED notRunVars
    /\ bound[t]
    /\ bound' = [bound EXCEPT ![t] = FALSE]
    /\ UNCHANGED <<epc, stale, leftover, lifelog, sessions>>

\* the editor object is dropped when the run is over: __del__ calls
\* close() (__init__.py:127-130)
EditorDel ==
    /\ UNCHANGED notRunVars
    /\ epc = "ready" /\ \A t \in Threads : ~bound[t]
    /\ Close
    /\ epc' = "deleted"
    /\ UNCHANGED <<bound, sessions>>

NextRun ==
    \/ EnsureClean
    \/ Launch
    \/ \E t \in Threads : CodingOpen(t)
    \/ \E t \in Threads : CodingEnd(t)
    \/ EditorDel


\* ================================================================== scores
\* pass_at_k values are counted in units of 1 / PassScale
\* (pass_at_k_statistic.py:72-86)
PassScale == 2

\* `missing_weight_default: float = 1.0` (pass_at_k_statistic.py:111, 193)
missing_weight_default == 1

\* `target_scenario: str | None = None` (pass_at_k_statistic.py:191)
None == "None"

\* the records stat_pass_at_k_score builds (pass_at_k_statistic.py:60-68)
Record ==
    [model : {"m"}, testcase : {"t1", "t2"}, scenario : {"gen", "fix"},
     pass_at_k : 0..PassScale, severity : {"high", "medium"}]

RECURSIVE SeqsUpTo(_, _)
SeqsUpTo(S, n) ==
    IF n = 0 THEN {<<>>}
    ELSE LET shorter == SeqsUpTo(S, n - 1)
         IN shorter \cup {Append(q, x) : q \in {r \in shorter : Len(r) = n - 1}, x \in S}

\* a fraction <<numerator, denominator>>; 0.0 is <<0, 1>>
Zero == <<0, 1>>
RAdd(a, b) == <<a[1] * b[2] + b[1] * a[2], a[2] * b[2]>>
REq(a, b) == a[1] * b[2] = b[1] * a[2]

RECURSIVE Sum(_, _)
Sum(f, S) ==
    IF S = {} THEN 0
    ELSE LET x == CHOOSE x \in S : TRUE IN f[x] + Sum(f, S \ {x})

RECURSIVE RSum(_, _)
RSum(f, S) ==
    IF S = {} THEN Zero
    ELSE LET x == CHOOSE x \in S : TRUE IN RAdd(f[x], RSum(f, S \ {x}))

\* `df[col].map(weights).fillna(missing_weight_default)`
\* (pass_at_k_statistic.py:140-142, 160-162, 232-234)
WeightIgnored(weights, key) == missing_weight_default
Weight(weights, key) ==
    IF key \in DOMAIN weights THEN weights[key] ELSE missing_weight_default

\* `df.empty` of the frame built from the records
\* (pass_at_k_statistic.py:130-133, 212-215)
DfEmptyNever(rs) == FALSE
DfEmpty(rs) == rs = <<>>

\* the rows of one (model, testcase) group, of one scenario
CaseKeys(rs) == {<<rs[i].model, rs[i].testcase>> : i \in DOMAIN rs}
CaseRows(rs, c) == {i \in DOMAIN rs : <<rs[i].model, rs[i].testcase>> = c}
ScenarioRowsAll(rs, sc) == DOMAIN rs
ScenarioRows(rs, sc) == {i \in DOMAIN rs : rs[i].scenario = sc}
First(I) == CHOOSE i \in I : \A j \in I : i <= j

\* the scenario-weighted score of one case (pass_at_k_statistic.py:143-151)
CaseScore(rs, sw, c) ==
    LET I == CaseRows(rs, c)
    IN <<Sum([i \in I |-> rs[i].pass_at_k * Weight(sw, rs[i].scenario)], I),
         PassScale * Sum([i \in I |-> Weight(sw, rs[i].scenario)], I)>>

\* the category weight of a case, by the severity of its first row
\* (pass_at_k_statistic.py:154-162)
CaseWeight(rs, cw, c) == Weight(cw, rs[First(CaseRows(rs, c))].severity)

\* calculate_final_score: 0.0 for an empty frame; a frame without columns
\* that got past that test raises KeyError at df["scenario"]
\* (pass_at_k_statistic.py:125-186)
calculate_final_score(rs, cw, sw) ==
    IF DfEmpty(rs) THEN [error |-> "", value |-> Zero]
    ELSE IF rs = <<>> THEN [error |-> "KeyError", value |-> Zero]
    ELSE LET CS == CaseKeys(rs)
             total_weight == Sum([c \in CS |-> CaseWeight(rs, cw, c)], CS)
             total_score ==
                 RSum([c \in CS |->
                          <<CaseScore(rs, sw, c)[1] * CaseWeight(rs, cw, c),
                            CaseScore(rs, sw, c)[2]>>], CS)
         IN [error |-> "",
             value |-> IF total_weight > 0
                       THEN <<total_score[1], total_score[2] * total_weight>>
                       ELSE Zero]

\* one entry of the scenario scores: the plain mean, the category-weighted
\* mean and the number of rows (pass_at_k_statistic.py:241-251, 259-267)
ScenarioEntry(rs, cw, I) ==
    LET total_weight == Sum([i \in I |-> Weight(cw, rs[i].severity)], I)
    IN [average_score |->
            <<Sum([i \in I |-> rs[i].pass_at_k], I), PassScale * Cardinality(I)>>,
        weighted_average_score |->
            IF total_weight > 0
            THEN <<Sum([i \in I |-> rs[i].pass_at_k * Weight(cw, rs[i].severity)], I),
                   PassScale * total_weight>>
            ELSE Zero,
        testcase_count |-> Cardinality(I)]

\* calculate_scenario_score: a list for a target scenario, else a dict
\* keyed by scenario (pass_at_k_statistic.py:208-279)
calculate_scenario_score(rs, target, cw) ==
    IF DfEmpty(rs)
    THEN [error |-> "", type |-> IF target # None THEN "list" ELSE "dict",
          keys |-> {}, items |-> <<>>]
    ELSE IF rs = <<>>
    THEN [error |-> "KeyError", type |-> "none", keys |-> {}, items |-> <<>>]
    ELSE IF target # None
    THEN IF ScenarioRows(rs, target) = {}
         THEN [error |-> "", type |-> "list", keys |-> {}, items |-> <<>>]
         ELSE [error |-> "", type |-> "list", keys |-> {target},
               items |-> <<ScenarioEntry(rs, cw, ScenarioRows(rs, target))>>]
    ELSE LET keys == {rs[i].scenario : i \in DOMAIN rs}
         IN [error |-> "", type |-> "dict", keys |-> keys,
             items |-> [sc \in keys |-> ScenarioEntry(rs, cw, ScenarioRows(rs, sc))]]

NoScoreResult == [error |-> "", type |-> "none", keys |-> {}, items |-> <<>>]
NoFinalResult == [error |-> "", value |-> Zero]

\* nothing is scored
NoScore ==
    /\ records = <<>> /\ category_weights = <<>> /\ scenario_weights = <<>>
    /\ target_scenario = None /\ calls = {}
    /\ final_score = NoFinalResult /\ scenario_score = NoScoreResult

\* the arguments of the two functions
InitScore ==
    /\ records \in SeqsUpTo(Record, MaxRecords)
    /\ category_weights \in {<<>>, [s \in {"high"} |-> 2]}
    /\ scenario_weights \in {<<>>, [s \in {"gen"} |-> 2]}
    /\ target_scenario \in {None, "gen"}
    /\ calls = {}
    /\ final_score = NoFinalResult /\ scenario_score = NoScoreResult

CalculateFinalScore ==
    /\ UNCHANGED notScoreVars
    /\ "final" \notin calls
    /\ calls' = calls \cup {"final"}
    /\ final_score' = calculate_final_score(records, category_weights, scenario_weights)
    /\ UNCHANGED <<records, category_weights, scenario_weights, target_scenario,
                   scenario_score>>

CalculateScenarioScore ==
    /\ UNCHANGED notScoreVars
    /\ "scenario" \notin calls
    /\ calls' = calls \cup {"scenario"}
    /\ scenario_score' =
           calculate_scenario_score(records, target_scenario, category_weights)
    /\ UNCHANGED <<records, category_weights, scenario_weights, target_scenario,
                   final_score>>

NextScore ==
    \/ CalculateFinalScore
    \/ CalculateScenarioScore


\* ========================================================= window cleanup
\* _close_all_vscode_windows (vscode_lingma.py:181-285), the first step of the
\* shutdown body, followed target by target and process by process.

MaxPages == 2
MaxProcs == 2

\* how closing one listed page goes: closed (create_connection, close_windows
\* and ws.close all return), an error in one of them, or a page without
\* webSocketDebuggerUrl (vscode_lingma.py:195-223)
PageKinds == {"closed", "error", "nourl"}

\* how one process of process_iter goes: its name and command line do not
\* match, terminate() and wait() return, wait() times out and kill() is sent,
\* or terminate() raises NoSuchProcess, AccessDenied or another Exception
\* (vscode_lingma.py:240-275)
ProcKinds == {"unrelated", "terminated", "timeout", "gone", "denied", "error"}

\* the filter of l.246-251
Related(kind) == kind # "unrelated"

NoWindows ==
    /\ wpc = "none" /\ pages = <<>> /\ procs = <<>> /\ listed = FALSE
    /\ pidx = 0 /\ qidx = 0 /\ closed_count = 0 /\ terminated_count = 0
    /\ pagesTried = 0 /\ procsTried = 0

InitWindows ==
    /\ wpc = "list"
    /\ pages \in SeqsUpTo(PageKinds, MaxPages)
    /\ procs \in SeqsUpTo(ProcKinds, MaxProcs)
    /\ listed = FALSE
    /\ pidx = 0 /\ qidx = 0 /\ closed_count = 0 /\ terminated_count = 0
    /\ pagesTried = 0 /\ procsTried = 0

\* the thread running the shutdown body is inside _close_all_vscode_windows
InWindowCleanup == procAlive /\ \E t \in Threads : apc[t] = "close"

\* where the process loop starts: an empty process_iter ends the function
ProcLoop == IF procs = <<>> THEN "done" ELSE "procs"

\* a for loop goes to its next element whether or not the body's handlers ran:
\* every error of one element is caught inside the loop body
\* (vscode_lingma.py:195-223, 240-275)
NextIndexStop(i, n, failed) == IF failed THEN n + 1 ELSE i + 1
NextIndex(i, n, failed) == i + 1

\* pages = CdpOperator.get_data(): it returns, or raises and the handler of
\* l.227-228 logs and skips the page loop (vscode_lingma.py:189-191, 227-228)
ListPages ==
    /\ UNCHANGED notWinVars
    /\ InWindowCleanup /\ wpc = "list"
    /\ \E ok \in BOOLEAN :
          /\ listed' = ok
          /\ wpc' = IF ok /\ pages # <<>> THEN "pages" ELSE ProcLoop
    /\ pidx' = 1 /\ qidx' = 1
    /\ UNCHANGED <<pages, procs, closed_count, terminated_count, pagesTried, procsTried>>

\* one turn of `for page in pages:` (vscode_lingma.py:195-223)
ClosePage ==
    /\ UNCHANGED notWinVars
    /\ InWindowCleanup /\ wpc = "pages" /\ pidx <= Len(pages)
    /\ pagesTried' = pagesTried + 1
    /\ closed_count' = IF pages[pidx] = "closed" THEN closed_count + 1 ELSE closed_count
    /\ pidx' = NextIndex(pidx, Len(pages), pages[pidx] = "error")
    /\ wpc' = IF pidx' > Len(pages) THEN ProcLoop ELSE "pages"
    /\ UNCHANGED <<pages, procs, listed, qidx, terminated_count, procsTried>>

\* one turn of `for proc in psutil.process_iter(...)` (vscode_lingma.py:240-275)
TerminateProcess ==
    /\ UNCHANGED notWinVars
    /\ InWindowCleanup /\ wpc = "procs" /\ qidx <= Len(procs)
    /\ procsTried' = IF Related(procs[qidx]) THEN procsTried + 1 ELSE procsTried
    /\ terminated_count' = IF procs[qidx] \in {"terminated", "timeout"}
                           THEN terminated_count + 1 ELSE terminated_count
    /\ qidx' = NextIndex(qidx, Len(procs), procs[qidx] \in {"gone", "denied", "error"})
    /\ wpc' = IF qidx' > Len(procs) THEN "done" ELSE "procs"
    /\ UNCHANGED <<pages, procs, listed, pidx, closed_count, pagesTried>>

\* the shutdown body of the elected thread with its window cleanup
NextShutdown ==
    \/ ListPages
    \/ ClosePage
    \/ TerminateProcess
    \/ \E t \in Threads : BodyStep(t)
    \/ \E t \in Threads : SendSigterm(t)
    \/ \E t \in Threads : BodyRaise(t)
    \/ \E t \in Threads : NotifyWaiters(t)
    \/ \E t \in Threads : SysExit(t)

\* thread 1 has won the election and left the lock (vscode_lingma.py:55-74)
InitElected ==
    /\ GLOBAL_TERMINATION_IN_PROGRESS = TRUE
    /\ GLOBAL_TERMINATION_LOCK = 0
    /\ GLOBAL_TERMINATION_EVENT = FALSE
    /\ apc = [t \in Threads |-> IF t = 1 THEN "close" ELSE "running"]
    /\ is_termination_thread = [t \in Threads |-> t = 1]
    /\ waited = [t \in Threads |-> 0]
    /\ shutdownLog = <<>>
    /\ procAlive = TRUE


\* ========================================================= page selection
\* _call_pages with the (js_script, selector) pair of every editor class
\* (__init__.py:354-391 and each class's _get_pages_selector).

\* `timeout = 30`, `retry_interval = 1` (__init__.py:364-365)
pages_timeout == 30
pages_retry_interval == 1

Editors == {"cursor", "lingma", "qoder", "trae", "vscode_buddy",
            "vscode_copilot", "vscode_lingma", "vscode_zulu"}

\* what _get_pages_selector returns: "script" stands for the non-empty probe
\* text every class returns, "css" for a non-empty selector; the Copilot
\* class returns its script with the selector "" (vscode_copilot.py:49-66)
get_pages_selector(e) ==
    IF e = "vscode_copilot" THEN <<"script", "">> ELSE <<"script", "css">>

\* `if js_script != "" and selector != "":` (__init__.py:370)
PollWanted(pair) == pair[1] # "" /\ pair[2] # ""

NoPages ==
    /\ editor = "cursor" /\ ppc = "idle" /\ pagesElapsed = 0 /\ pagesPolls = 0
    /\ flag = FALSE /\ perr = ""

InitPages ==
    /\ editor \in Editors /\ ppc = "enable" /\ pagesElapsed = 0 /\ pagesPolls = 0
    /\ flag = FALSE /\ perr = ""

\* CdpOperator.send_command(ws, "Runtime.enable"), then the test of the pair
\* and `flag = True` (__init__.py:367-376)
RuntimeEnable ==
    /\ UNCHANGED notPageVars
    /\ ppc = "enable"
    /\ \E ok \in BOOLEAN :
         IF ~ok
         THEN ppc' = "raised" /\ perr' = "protocol" /\ UNCHANGED flag
         ELSE /\ perr' = perr
              /\ IF PollWanted(get_pages_selector(editor))
                 THEN ppc' = "poll" /\ flag' = TRUE
                 ELSE ppc' = "settle" /\ UNCHANGED flag
    /\ UNCHANGED <<editor, pagesElapsed, pagesPolls>>

\* one turn of `while time.time() - start_time < timeout and flag:` the probe
\* is truthy, falsy or raises (logged), then sleep(retry_interval); the
\* evaluation takes up to MaxProbeDelay (__init__.py:377-385)
PagesPoll ==
    /\ UNCHANGED notPageVars
    /\ ppc = "poll" /\ pagesElapsed < pages_timeout /\ flag
    /\ \E out \in {"truthy", "falsy", "raises"}, delay \in 0..MaxProbeDelay :
         /\ flag' = (out # "truthy")
         /\ pagesElapsed' = pagesElapsed + delay + pages_retry_interval
    /\ pagesPolls' = pagesPolls + 1
    /\ UNCHANGED <<editor, ppc, perr>>

\* the loop is left; `if flag: raise Exception("wait for pages connect time
\* out")` (__init__.py:377, 386-387)
PagesLoopEnd ==
    /\ UNCHANGED notPageVars
    /\ ppc = "poll" /\ ~(pagesElapsed < pages_timeout /\ flag)
    /\ IF flag THEN ppc' = "raised" /\ perr' = "pages"
               ELSE ppc' = "settle" /\ perr' = perr
    /\ UNCHANGED <<editor, pagesElapsed, pagesPolls, flag>>

\* time.sleep(1); return True (__init__.py:389-391)
PagesReturn ==
    /\ UNCHANGED notPageVars
    /\ ppc = "settle"
    /\ ppc' = "returned"
    /\ UNCHANGED <<editor, pagesElapsed, pagesPolls, flag, perr>>

NextPages ==
    \/ RuntimeEnable
    \/ PagesPoll
    \/ PagesLoopEnd
    \/ PagesReturn


\* ========================================================= child discovery
\* get_child_pages_connect(code_dir, extends_id) (cdp_utils.py:91-137).
\* A view is a record of the listing; its title is given by which of the two
\* strings looked for it contains: "ws" for Path(code_dir).name, "ext" for
\* extends_id. parentId "" stands for a view without that key.

MaxViews == 2

NoView == [id |-> "", parentId |-> "", title |-> {}]

Views ==
    { [id |-> "A", parentId |-> "", title |-> {"ws"}],
      [id |-> "A", parentId |-> "", title |-> {}],
      [id |-> "B", parentId |-> "", title |-> {"ws"}],
      [id |-> "C", parentId |-> "A", title |-> {"ext"}],
      [id |-> "C", parentId |-> "A", title |-> {}],
      [id |-> "D", parentId |-> "B", title |-> {"ext"}] }

\* the listings /json can give: target ids are unique within one listing
ViewListings ==
    { ls \in SeqsUpTo(Views, MaxViews) :
        \A i, j \in 1..Len(ls) : ls[i].id = ls[j].id => i = j }

LastIndex(I) == CHOOSE i \in I : \A j \in I : j <= i
FirstIndex(I) == CHOOSE i \in I : \A j \in I : i <= j

\* `for view in views: if Path(code_dir).name in view["title"]: parent_id =
\* view["id"]`: the last match wins, and without a match parent_id keeps the
\* value it had, which is set to "" only before the loop
\* (cdp_utils.py:109, 113-115)
ParentAfter(pid, ls) ==
    LET m == {i \in 1..Len(ls) : "ws" \in ls[i].title} IN
    IF m = {} THEN pid ELSE ls[LastIndex(m)].id

\* the views the second scan tries to connect to (cdp_utils.py:116-122)
ChildMatches(pid, ls) ==
    IF pid = "" THEN {}
    ELSE {i \in 1..Len(ls) : ls[i].parentId = pid /\ "ext" \in ls[i].title}

NoChild ==
    /\ kpc = "idle" /\ kretry = 0 /\ parent_id = "" /\ views = <<>> /\ con = NoView

\* max_retry = 5; retry = 0; interval = 1; parent_id = "" (cdp_utils.py:106-109)
InitChild ==
    /\ kpc = "loop" /\ kretry = 0 /\ parent_id = "" /\ views = <<>> /\ con = NoView

\* one turn of `while retry < max_retry:`: get_data raises, or the listing is
\* scanned for the parent and then for a child; create_connection succeeds
\* for the targets in `up`; the first child connected to is returned,
\* otherwise retry += 1 and sleep (cdp_utils.py:110-133)
ChildTurn ==
    /\ UNCHANGED notChildVars
    /\ kpc = "loop" /\ RetryLeft(kretry)
    /\ \E ok \in BOOLEAN, ls \in ViewListings, up \in SUBSET {"C", "D"} :
         IF ~ok
         THEN /\ kretry' = kretry + 1
              /\ UNCHANGED <<kpc, parent_id, views, con>>
         ELSE LET pid == ParentAfter(parent_id, ls)
                  hit == {i \in ChildMatches(pid, ls) : ls[i].id \in up} IN
              /\ views' = ls
              /\ parent_id' = pid
              /\ IF hit # {}
                 THEN /\ con' = ls[FirstIndex(hit)]
                      /\ kpc' = "returned"
                      /\ UNCHANGED kretry
                 ELSE /\ kretry' = kretry + 1
                      /\ UNCHANGED <<kpc, con>>

\* the retries are used up (cdp_utils.py:134-137)
ChildGiveUp ==
    /\ UNCHANGED notChildVars
    /\ kpc = "loop" /\ ~RetryLeft(kretry)
    /\ kpc' = "raised"
    /\ UNCHANGED <<kretry, parent_id, views, con>>

NextChild ==
    \/ ChildTurn
    \/ ChildGiveUp


\* ========================================================= page discovery
\* get_page_connect(code_dir) (cdp_utils.py:53-89), over the same listings.

\* `if Path(code_dir).name in view["title"]:` (cdp_utils.py:73-74)
PageMatchesAny(ls) == 1..Len(ls)
PageMatches(ls) == {i \in 1..Len(ls) : "ws" \in ls[i].title}

NoConnect ==
    /\ gpc = "idle" /\ gretry = 0 /\ gviews = <<>> /\ gcon = NoView
    /\ queries = 0 /\ pauses = 0 /\ reachable = {} /\ queryFailed = FALSE

\* max_retry = 5; retry = 0; interval = 1 (cdp_utils.py:67-69)
InitConnect ==
    /\ gpc = "loop" /\ gretry = 0 /\ gviews = <<>> /\ gcon = NoView
    /\ queries = 0 /\ pauses = 0 /\ reachable = {} /\ queryFailed = FALSE

\* one turn of `while retry < max_retry:`: get_data raises, or the listing is
\* scanned in order and the first matching view whose create_connection
\* succeeds is returned; a refused connection is logged and the scan goes on;
\* without a return, retry += 1 and time.sleep(interval) (cdp_utils.py:70-85)
PageTurn ==
    /\ UNCHANGED notConnVars
    /\ gpc = "loop" /\ RetryLeft(gretry)
    /\ queries' = queries + 1
    /\ \E ok \in BOOLEAN, ls \in ViewListings, up \in SUBSET {"A", "B"} :
         /\ queryFailed' = ~ok
         /\ reachable' = up
         /\ IF ~ok
            THEN /\ gretry' = gretry + 1 /\ pauses' = pauses + 1
                 /\ UNCHANGED <<gpc, gviews, gcon>>
            ELSE LET hit == {i \in PageMatches(ls) : ls[i].id \in up} IN
                 /\ gviews' = ls
                 /\ IF hit # {}
                    THEN /\ gcon' = ls[FirstIndex(hit)]
                         /\ gpc' = "returned"
                         /\ UNCHANGED <<gretry, pauses>>
                    ELSE /\ gretry' = gretry + 1 /\ pauses' = pauses + 1
                         /\ UNCHANGED <<gpc, gcon>>

\* the retries are used up: "Unable to connect to debug port, maximum retry
\* attempts have been reached" (cdp_utils.py:86-89)
PageGiveUp ==
    /\ UNCHANGED notConnVars
    /\ gpc = "loop" /\ ~RetryLeft(gretry)
    /\ gpc' = "raised"
    /\ UNCHANGED <<gretry, gviews, gcon, queries, pauses, reachable, queryFailed>>

NextConnect ==
    \/ PageTurn
    \/ PageGiveUp


\* ========================================================= LLM query retry
\* LLMBase.aquery under @retry(retry_if_exception_type((LLMAPIError,
\* LLMRateLimitError, LLMTimeoutError)), stop_after_attempt(5),
\* wait_for_rate_limit(), reraise=True) (llm/llm_base.py:37-109, 212-232),
\* with the exceptions OpenAI's _aquery_implementation raises
\* (llm/openai.py:101-108).

MaxHint == 2

\* the retry-after header the server sent with an error: <<>> if it sent
\* none, <<n>> for the value n
Hints == {<<>>} \cup {<<n>> : n \in 1..MaxHint}

\* the exception _aquery_implementation raises for an error of the client
\* library: a class of llm_base.py built from a message and the cause. Its
\* attributes are those its constructor sets; the response of the server,
\* with its headers, stays on the cause (llm/llm_base.py:115-185;
\* llm/openai.py:101-108)
LLMException(type, hint) ==
    [type |-> type,
     attrs |-> {"message", "cause"} \cup
               (CASE type = "LLMAPIError" -> {"status_code"}
                  [] type = "LLMRateLimitError" -> {"retry_after"}
                  [] type = "LLMTimeoutError" -> {"timeout"}
                  [] OTHER -> {}),
     cause |-> [retry_after |-> hint]]

Success == [type |-> "", attrs |-> {}, cause |-> [retry_after |-> <<>>]]

ExceptionTypes == {"LLMAPIError", "LLMRateLimitError", "LLMTimeoutError", "LLMBaseException"}

\* retry_if_exception_type((LLMAPIError, LLMRateLimitError, LLMTimeoutError))
\* (llm/llm_base.py:213)
retry_if_exception_type(e) ==
    e.type \in {"LLMAPIError", "LLMRateLimitError", "LLMTimeoutError"}

\* stop_after_attempt(5) (llm/llm_base.py:214)
stop_after_attempt == 5

\* `min(10.0, (1 * (2**retry_state.attempt_number)))` (llm/llm_base.py:107)
Backoff(n) == IF 2^n < 10 THEN 2^n ELSE 10

\* wait_for_rate_limit.__call__: a header is read only under
\* `hasattr(exception, "response") and exception.response is not None`
\* (llm/llm_base.py:57-109)
HasResponse(e) == "response" \in e.attrs

wait_for_rate_limit(e, n) ==
    IF HasResponse(e) /\ e.cause.retry_after # <<>>
    THEN e.cause.retry_after[1]
    ELSE Backoff(n)

NoQuery == qpc = "idle" /\ attempt_number = 0 /\ outcomes = <<>> /\ qwaits = <<>>

InitQuery == qpc = "call" /\ attempt_number = 0 /\ outcomes = <<>> /\ qwaits = <<>>

\* one attempt: the body of aquery returns, or raises; tenacity re-raises an
\* exception it does not retry on and the exception of the fifth attempt,
\* and otherwise sleeps wait_for_rate_limit(...) and calls again
\* (llm/llm_base.py:212-232)
QueryAttempt ==
    /\ UNCHANGED notQueryVars
    /\ qpc = "call"
    /\ attempt_number' = attempt_number + 1
    /\ \E ok \in BOOLEAN, type \in ExceptionTypes, hint \in Hints :
         LET e == IF ok THEN Success ELSE LLMException(type, hint) IN
         /\ ok => (type = "LLMAPIError" /\ hint = <<>>)
         /\ outcomes' = Append(outcomes, e)
         /\ IF ok
            THEN qpc' = "returned" /\ UNCHANGED qwaits
            ELSE IF ~retry_if_exception_type(e) \/ attempt_number' >= stop_after_attempt
                 THEN qpc' = "raised" /\ UNCHANGED qwaits
                 ELSE /\ qpc' = "call"
                      /\ qwaits' = Append(qwaits, wait_for_rate_limit(e, attempt_number'))

NextQuery == QueryAttempt


\* ========================================================= rate limiter
\* RateLimiter.acquire (utils/rate_limiter.py:75-106) called by coroutines
\* that run on the event loops of the worker threads: each worker runs its
\* evaluation under asyncio.run and all share the limiter of an LLM instance
\* (evaluator/universal_evaluator.py:155-184; llm/llm_manager.py:69-76).
\* Time is counted in units of 1 / tokens_per_second, so one unit refills
\* one token.

MaxAcquirers == 2
MaxBurst == 2
MaxClock == 2

Acquirers == 1..MaxAcquirers

\* a call is between `async with self._lock:` and the end of that block, a
\* stretch without an await
InSegment(a) == lpc[a] \in {"set", "refill", "check", "take", "release_ret", "release_wait"}

\* a coroutine runs when no other coroutine of its own event loop is in the
\* middle of a stretch without an await; coroutines of other loops run in
\* other threads and may be anywhere
MayRun(a) ==
    \A b \in Acquirers \ {a} : loop_of[b] = loop_of[a] => ~InSegment(b)

NoLimiter ==
    /\ burst_size = 0 /\ tokens = 0 /\ last_refill_time = 0 /\ now = 0
    /\ locked = FALSE /\ lpc = [a \in Acquirers |-> "idle"]
    /\ wake = [a \in Acquirers |-> 0] /\ loop_of = [a \in Acquirers |-> 1]
    /\ acquired = 0 /\ refilled = 0

\* RateLimiter(max_cnts, window_seconds, burst_size): the bucket starts full
\* (utils/rate_limiter.py:45-73)
InitLimiter ==
    /\ burst_size \in 1..MaxBurst /\ tokens = burst_size
    /\ last_refill_time = 0 /\ now = 0
    /\ locked = FALSE /\ lpc = [a \in Acquirers |-> "start"]
    /\ wake = [a \in Acquirers |-> 0]
    /\ loop_of \in [Acquirers -> 1..MaxAcquirers]
    /\ acquired = 0 /\ refilled = 0

\* time passes
ClockTick ==
    /\ UNCHANGED notLimVars
    /\ now < MaxClock
    /\ now' = now + 1
    /\ UNCHANGED <<burst_size, tokens, last_refill_time, locked, lpc, wake, loop_of,
                   acquired, refilled>>

\* `async with self._lock:` asyncio.Lock.acquire finds the lock free; a call
\* that finds it taken waits for its release. The lock is an asyncio
\* primitive: its test and its set are one step only for the coroutines of
\* one loop (utils/rate_limiter.py:97)
LockTest(a) ==
    /\ UNCHANGED notLimVars
    /\ lpc[a] = "start" /\ MayRun(a) /\ ~locked
    /\ lpc' = [lpc EXCEPT ![a] = "set"]
    /\ UNCHANGED <<burst_size, tokens, last_refill_time, now, locked, wake, loop_of,
                   acquired, refilled>>

LockSet(a) ==
    /\ UNCHANGED notLimVars
    /\ lpc[a] = "set" /\ MayRun(a)
    /\ locked' = TRUE
    /\ lpc' = [lpc EXCEPT ![a] = "refill"]
    /\ UNCHANGED <<burst_size, tokens, last_refill_time, now, wake, loop_of, acquired,
                   refilled>>

\* `self.tokens = min(float(self.burst_size), self.tokens + tokens_to_add)`
\* (utils/rate_limiter.py:85)
RefilledTokensUncapped(t, add, cap) == t + add
RefilledTokens(t, add, cap) == IF t + add < cap THEN t + add ELSE cap

\* self._refill_tokens() (utils/rate_limiter.py:75-86, 98)
Refill(a) ==
    /\ UNCHANGED notLimVars
    /\ lpc[a] = "refill" /\ MayRun(a)
    /\ tokens' = RefilledTokens(tokens, now - last_refill_time, burst_size)
    /\ refilled' = refilled + (tokens' - tokens)
    /\ last_refill_time' = now
    /\ lpc' = [lpc EXCEPT ![a] = "check"]
    /\ UNCHANGED <<burst_size, now, locked, wake, loop_of, acquired>>

\* `if self.tokens >= 1:`, else tokens_needed and wait_time
\* (utils/rate_limiter.py:99, 102-103)
TestTokens(a) ==
    /\ UNCHANGED notLimVars
    /\ lpc[a] = "check" /\ MayRun(a)
    /\ IF tokens >= 1
       THEN lpc' = [lpc EXCEPT ![a] = "take"] /\ UNCHANGED wake
       ELSE /\ lpc' = [lpc EXCEPT ![a] = "release_wait"]
            /\ wake' = [wake EXCEPT ![a] = now + (1 - tokens)]
    /\ UNCHANGED <<burst_size, tokens, last_refill_time, now, locked, loop_of, acquired,
                   refilled>>

\* `self.tokens -= 1` (utils/rate_limiter.py:100)
TakeToken(a) ==
    /\ UNCHANGED notLimVars
    /\ lpc[a] = "take" /\ MayRun(a)
    /\ tokens' = tokens - 1
    /\ lpc' = [lpc EXCEPT ![a] = "release_ret"]
    /\ UNCHANGED <<burst_size, last_refill_time, now, locked, wake, loop_of, acquired,
                   refilled>>

\* the end of the `async with` block: by `return`, or before the sleep
\* (utils/rate_limiter.py:101, 103-106)
Release(a) ==
    /\ UNCHANGED notLimVars
    /\ lpc[a] \in {"release_ret", "release_wait"} /\ MayRun(a)
    /\ locked' = FALSE
    /\ IF lpc[a] = "release_ret"
       THEN lpc' = [lpc EXCEPT ![a] = "done"] /\ acquired' = acquired + 1
       ELSE lpc' = [lpc EXCEPT ![a] = "sleep"] /\ UNCHANGED acquired
    /\ UNCHANGED <<burst_size, tokens, last_refill_time, now, wake, loop_of, refilled>>

\* `await asyncio.sleep(wait_time)` is over: the loop of acquire goes round
\* (utils/rate_limiter.py:96, 106)
WakeUp(a) ==
    /\ UNCHANGED notLimVars
    /\ lpc[a] = "sleep" /\ now >= wake[a]
    /\ lpc' = [lpc EXCEPT ![a] = "start"]
    /\ UNCHANGED <<burst_size, tokens, last_refill_time, now, locked, wake, loop_of,
                   acquired, refilled>>

NextLimiter ==
    \/ ClockTick
    \/ \E a \in Acquirers : LockTest(a)
    \/ \E a \in Acquirers : LockSet(a)
    \/ \E a \in Acquirers : Refill(a)
    \/ \E a \in Acquirers : TestTokens(a)
    \/ \E a \in Acquirers : TakeToken(a)
    \/ \E a \in Acquirers : Release(a)
    \/ \E a \in Acquirers : WakeUp(a)


\* ========================================================= runner
\* Runner.run for the (cycle, scenario) pairs of one test case
\* (runner/runner.py:84-250; utils/testcase.py:100-156). An EvaluatorResult
\* is kept by what decides the flow: success, if_pass() and the origin of
\* its error message.

MaxCycles == 1

Scenarios == {"gen", "fix"}
RunKeys == (1..MaxCycles) \X Scenarios

\* EvaluatorResult(success=False, error_message=...) (utils/testcase.py:139-154;
\* runner.py:217-221, 241-247)
FailedResult(why) == [success |-> FALSE, pass |-> FALSE, error_message |-> why]

\* what an evaluator returns: success and if_pass() (evaluator/base.py:53-64)
EvaluatorResults ==
    {[success |-> TRUE, pass |-> TRUE, error_message |-> ""],
     [success |-> TRUE, pass |-> FALSE, error_message |-> ""],
     FailedResult("evaluator")}

\* FunctionTester.function_eval returns a result or another object, or
\* raises SyntaxCheckError or another Exception (runner.py:175-204)
FunctionOutcomes ==
    [kind : {"result"}, value : EvaluatorResults]
      \cup [kind : {"object", "SyntaxCheckError", "Exception"}, value : {FailedResult("")}]

\* `if not fun_result.success or not fun_result.if_pass():` (runner.py:216)
FunctionPassed(r) == r.success /\ r.pass

NoResults == [k \in RunKeys |-> <<>>]

NoRunner ==
    /\ rpc = "none" /\ rkey = <<0, "">> /\ fun_result = <<>>
    /\ FunResults = <<>> /\ SecResults = <<>>
    /\ sec_evaluated = {} /\ ended = <<>>

\* a Testcase with empty result dictionaries (utils/testcase.py:83-88)
InitRunner ==
    /\ rpc = "idle" /\ rkey = <<0, "">> /\ fun_result = <<>>
    /\ FunResults = NoResults /\ SecResults = NoResults
    /\ sec_evaluated = {} /\ ended = [k \in RunKeys |-> ""]

\* Runner(testcase, scenario, editor, cycle).run(...) up to the copy of the
\* template; copytree may raise (e2e.py:149-156; runner.py:101-124)
RunStart(k) ==
    /\ UNCHANGED notRunnerVars
    /\ rpc = "idle" /\ ended[k] = ""
    /\ rkey' = k
    /\ \E ok \in BOOLEAN : rpc' = IF ok THEN "coding" ELSE "raised"
    /\ UNCHANGED <<fun_result, FunResults, SecResults, sec_evaluated, ended>>

\* self.editor.coding(...): its exception leaves run (runner.py:129)
RunCoding ==
    /\ UNCHANGED notRunnerVars
    /\ rpc = "coding"
    /\ \E ok \in BOOLEAN : rpc' = IF ok THEN "copy" ELSE "raised"
    /\ UNCHANGED <<rkey, fun_result, FunResults, SecResults, sec_evaluated, ended>>

\* the copy of the test sources: without the template's src/test directory
\* run logs a warning and returns; an error of the copy is logged and the
\* run goes on (runner.py:131-173)
CopyTests ==
    /\ UNCHANGED notRunnerVars
    /\ rpc = "copy"
    /\ \E exists \in BOOLEAN : rpc' = IF exists THEN "function" ELSE "returned"
    /\ UNCHANGED <<rkey, fun_result, FunResults, SecResults, sec_evaluated, ended>>

\* set_error_result: a failed result for both kinds (utils/testcase.py:128-156)
SetErrorResult(why) ==
    /\ FunResults' = [FunResults EXCEPT ![rkey] = <<FailedResult(why)>>]
    /\ SecResults' = [SecResults EXCEPT ![rkey] = <<FailedResult(why)>>]

\* the functional evaluation and what run does with it, down to the test
\* of the result (runner.py:175-223)
FunctionEval ==
    /\ UNCHANGED notRunnerVars
    /\ rpc = "function"
    /\ \E o \in FunctionOutcomes :
         CASE o.kind = "SyntaxCheckError" ->
                /\ SetErrorResult("syntax") /\ rpc' = "returned"
                /\ UNCHANGED fun_result
           [] o.kind = "Exception" ->
                /\ SetErrorResult("functional") /\ rpc' = "returned"
                /\ UNCHANGED fun_result
           [] o.kind = "object" ->
                /\ SetErrorResult("not a result") /\ rpc' = "returned"
                /\ UNCHANGED fun_result
           [] o.kind = "result" ->
                /\ fun_result' = <<o.value>>
                /\ FunResults' = [FunResults EXCEPT ![rkey] = <<o.value>>]
                /\ IF FunctionPassed(o.value)
                   THEN rpc' = "security" /\ UNCHANGED SecResults
                   ELSE /\ rpc' = "returned"
                        /\ SecResults' = [SecResults EXCEPT
                                            ![rkey] = <<FailedResult("function test failed")>>]
    /\ UNCHANGED <<rkey, sec_evaluated, ended>>

\* SecurityTester.security_eval_sync and the recording of its result or of
\* its exception (runner.py:226-250)
SecurityEval ==
    /\ UNCHANGED notRunnerVars
    /\ rpc = "security"
    /\ sec_evaluated' = sec_evaluated \cup {rkey}
    /\ \E r \in EvaluatorResults \cup {FailedResult("security")} :
         SecResults' = [SecResults EXCEPT ![rkey] = <<r>>]
    /\ rpc' = "returned"
    /\ UNCHANGED <<rkey, fun_result, FunResults, ended>>

\* run has returned or raised: the worker goes to its next pair
RunEnd ==
    /\ UNCHANGED notRunnerVars
    /\ rpc \in {"returned", "raised"}
    /\ ended' = [ended EXCEPT ![rkey] = rpc]
    /\ rpc' = "idle" /\ fun_result' = <<>>
    /\ UNCHANGED <<rkey, FunResults, SecResults, sec_evaluated>>

NextRunner ==
    \/ \E k \in RunKeys : RunStart(k)
    \/ RunCoding
    \/ CopyTests
    \/ FunctionEval
    \/ SecurityEval
    \/ RunEnd


\* ========================================================= CLI editor
\* CliEditor.coding and run_cli on the one editor object that the workers
\* of the thread pool share (editor/cli/__init__.py:32-121; e2e.py:181,
\* 244-259; runner.py:129).

MaxCalls == 2

\* proc.returncode of a process that exited by itself
ExitCodes == {0, 1}

NoReport == <<>>

NoCli ==
    /\ finish = FALSE /\ return_code = 0 /\ std_out = 0 /\ rc_writer = 0
    /\ clipc = [t \in Threads |-> "none"]
    /\ proc = [t \in Threads |-> "none"]
    /\ path = [t \in Threads |-> ""]
    /\ own_code = [t \in Threads |-> 0]
    /\ reported = [t \in Threads |-> NoReport]
    /\ cliCalls = 0

\* CliEditor.__init__ (editor/cli/__init__.py:32-43)
InitCli ==
    /\ finish = FALSE /\ return_code = 0 /\ std_out = 0 /\ rc_writer = 0
    /\ clipc = [t \in Threads |-> "idle"]
    /\ proc = [t \in Threads |-> "none"]
    /\ path = [t \in Threads |-> ""]
    /\ own_code = [t \in Threads |-> 0]
    /\ reported = [t \in Threads |-> NoReport]
    /\ cliCalls = 0

\* a worker calls coding, which calls run_cli (e2e.py:149-156; runner.py:129;
\* editor/cli/__init__.py:45-60)
CliCoding(t) ==
    /\ UNCHANGED notCliVars
    /\ clipc[t] = "idle" /\ cliCalls < MaxCalls
    /\ cliCalls' = cliCalls + 1
    /\ clipc' = [clipc EXCEPT ![t] = "spawn"]
    /\ proc' = [proc EXCEPT ![t] = "none"]
    /\ path' = [path EXCEPT ![t] = ""]
    /\ reported' = [reported EXCEPT ![t] = NoReport]
    /\ UNCHANGED <<finish, return_code, std_out, rc_writer, own_code>>

\* subprocess.Popen(...): the process runs, or Popen raises and the
\* `except Exception` handler finds proc None
\* (editor/cli/__init__.py:88-96, 108-113)
CliSpawn(t) ==
    /\ UNCHANGED notCliVars
    /\ clipc[t] = "spawn"
    /\ \E ok \in BOOLEAN :
         IF ok
         THEN /\ proc' = [proc EXCEPT ![t] = "running"]
              /\ clipc' = [clipc EXCEPT ![t] = "communicate"]
              /\ UNCHANGED <<return_code, rc_writer, own_code, path>>
         ELSE /\ path' = [path EXCEPT ![t] = "spawn failure"]
              /\ return_code' = -1 /\ rc_writer' = t
              /\ own_code' = [own_code EXCEPT ![t] = -1]
              /\ clipc' = [clipc EXCEPT ![t] = "finally"]
              /\ UNCHANGED proc
    /\ UNCHANGED <<finish, std_out, reported, cliCalls>>

\* proc.communicate(timeout=self.timeout) and what follows it: the process
\* exits and its output and code are stored; or TimeoutExpired: kill,
\* communicate again, -1; or another exception: kill, -1, with the process
\* perhaps not yet gone (editor/cli/__init__.py:97-113)
CliCommunicate(t) ==
    /\ UNCHANGED notCliVars
    /\ clipc[t] = "communicate"
    /\ \/ \E code \in ExitCodes :
            /\ path' = [path EXCEPT ![t] = "exit"]
            /\ proc' = [proc EXCEPT ![t] = "exited"]
            /\ std_out' = t
            /\ return_code' = code
            /\ own_code' = [own_code EXCEPT ![t] = code]
       \/ /\ path' = [path EXCEPT ![t] = "timeout"]
          /\ proc' = [proc EXCEPT ![t] = "exited"]
          /\ std_out' = t
          /\ return_code' = -1
          /\ own_code' = [own_code EXCEPT ![t] = -1]
       \/ /\ path' = [path EXCEPT ![t] = "error"]
          /\ proc' \in {[proc EXCEPT ![t] = "running"], [proc EXCEPT ![t] = "exited"]}
          /\ return_code' = -1
          /\ own_code' = [own_code EXCEPT ![t] = -1]
          /\ UNCHANGED std_out
    /\ rc_writer' = t
    /\ clipc' = [clipc EXCEPT ![t] = "finally"]
    /\ UNCHANGED <<finish, reported, cliCalls>>

\* `if proc and proc.poll() is None:` (editor/cli/__init__.py:116)
StillRunningNever(p) == FALSE
StillRunning(p) == p = "running"

\* the finally block: kill and wait for a process that still runs, then
\* `self.finish = True` (editor/cli/__init__.py:114-120)
CliFinally(t) ==
    /\ UNCHANGED notCliVars
    /\ clipc[t] = "finally"
    /\ proc' = [proc EXCEPT ![t] = IF StillRunning(proc[t]) THEN "exited" ELSE proc[t]]
    /\ finish' = TRUE
    /\ clipc' = [clipc EXCEPT ![t] = "report"]
    /\ UNCHANGED <<return_code, std_out, rc_writer, path, own_code, reported, cliCalls>>

\* run_cli has returned: coding reads self.finish, self.return_code and
\* self.std_out for its log lines (editor/cli/__init__.py:62-70)
CliReport(t) ==
    /\ UNCHANGED notCliVars
    /\ clipc[t] = "report"
    /\ reported' = [reported EXCEPT ![t] =
                      <<[finish |-> finish, return_code |-> return_code, std_out |-> std_out]>>]
    /\ clipc' = [clipc EXCEPT ![t] = "idle"]
    /\ UNCHANGED <<finish, return_code, std_out, rc_writer, proc, path, own_code, cliCalls>>

NextCli ==
    \/ \E t \in Threads : CliCoding(t)
    \/ \E t \in Threads : CliSpawn(t)
    \/ \E t \in Threads : CliCommunicate(t)
    \/ \E t \in Threads : CliFinally(t)
    \/ \E t \in Threads : CliReport(t)


\* ========================================================= specifications
InitAbortSpec == InitAbort /\ InitSend /\ NoSession /\ NoRun /\ NoScore /\ NoWindows /\ NoPages /\ NoChild /\ NoConnect /\ NoQuery /\ NoLimiter /\ NoRunner /\ NoCli

SpecAbort == InitAbortSpec /\ [][NextAbort]_vars

\* one client, the frames it reads recorded
InitSendSpec == InitAbort /\ InitSend /\ NoSession /\ NoRun /\ NoScore /\ NoWindows /\ NoPages /\ NoChild /\ NoConnect /\ NoQuery /\ NoLimiter /\ NoRunner /\ NoCli

SpecSend == InitSendSpec /\ [][NextSend]_vars

\* the client thread keeps running and the remote side keeps answering
SpecSendFair == SpecSend /\ WF_vars(NextSend)

\* several workers, each sending on its own socket
InitIdsSpec == InitAbort /\ InitIds /\ NoSession /\ NoRun /\ NoScore /\ NoWindows /\ NoPages /\ NoChild /\ NoConnect /\ NoQuery /\ NoLimiter /\ NoRunner /\ NoCli

SpecIds == InitIdsSpec /\ [][NextSend]_vars

\* one call of coding; the probe outputs are not recorded
Init == InitAbort /\ InitIds /\ InitSession /\ NoRun /\ NoScore /\ NoWindows /\ NoPages /\ NoChild /\ NoConnect /\ NoQuery /\ NoLimiter /\ NoRunner /\ NoCli

Spec == Init /\ [][Next]_vars

\* one call of _wait, the probe outputs recorded
InitWaitSpec == InitAbort /\ InitSend /\ InitWait /\ NoRun /\ NoScore /\ NoWindows /\ NoPages /\ NoChild /\ NoConnect /\ NoQuery /\ NoLimiter /\ NoRunner /\ NoCli

SpecWait == InitWaitSpec /\ [][NextWait]_vars

\* the run of one shared editor with several workers
InitRunSpec == InitAbort /\ InitSend /\ NoSession /\ InitRun /\ NoScore /\ NoWindows /\ NoPages /\ NoChild /\ NoConnect /\ NoQuery /\ NoLimiter /\ NoRunner /\ NoCli

SpecRun == InitRunSpec /\ [][NextRun]_vars

\* the two score functions on every list of up to MaxRecords records
InitScoreSpec == InitAbort /\ InitSend /\ NoSession /\ NoRun /\ InitScore /\ NoWindows /\ NoPages /\ NoChild /\ NoConnect /\ NoQuery /\ NoLimiter /\ NoRunner /\ NoCli

SpecScore == InitScoreSpec /\ [][NextScore]_vars

\* the shutdown body with the window cleanup followed step by step
InitShutdownSpec == InitElected /\ InitSend /\ NoSession /\ NoRun /\ NoScore /\ InitWindows /\ NoPages /\ NoChild /\ NoConnect /\ NoQuery /\ NoLimiter /\ NoRunner /\ NoCli

SpecShutdown == InitShutdownSpec /\ [][NextShutdown]_vars

\* _call_pages on its own, for every editor class
InitPagesSpec == InitAbort /\ InitSend /\ NoSession /\ NoRun /\ NoScore /\ NoWindows /\ InitPages /\ NoChild /\ NoConnect /\ NoQuery /\ NoLimiter /\ NoRunner /\ NoCli

SpecPages == InitPagesSpec /\ [][NextPages]_vars

\* get_child_pages_connect on its own
InitChildSpec == InitAbort /\ InitSend /\ NoSession /\ NoRun /\ NoScore /\ NoWindows /\ NoPages /\ InitChild /\ NoConnect /\ NoQuery /\ NoLimiter /\ NoRunner /\ NoCli

SpecChild == InitChildSpec /\ [][NextChild]_vars

\* get_page_connect on its own
InitConnectSpec == InitAbort /\ InitSend /\ NoSession /\ NoRun /\ NoScore /\ NoWindows /\ NoPages /\ NoChild /\ InitConnect /\ NoQuery /\ NoLimiter /\ NoRunner /\ NoCli

SpecConnect == InitConnectSpec /\ [][NextConnect]_vars

\* one call of LLMBase.aquery
InitQuerySpec == InitAbort /\ InitSend /\ NoSession /\ NoRun /\ NoScore /\ NoWindows /\ NoPages /\ NoChild /\ NoConnect /\ InitQuery /\ NoLimiter /\ NoRunner /\ NoCli

SpecQuery == InitQuerySpec /\ [][NextQuery]_vars

\* acquire calls on one shared RateLimiter
InitLimiterSpec == InitAbort /\ InitSend /\ NoSession /\ NoRun /\ NoScore /\ NoWindows /\ NoPages /\ NoChild /\ NoConnect /\ NoQuery /\ InitLimiter /\ NoRunner /\ NoCli

SpecLimiter == InitLimiterSpec /\ [][NextLimiter]_vars

\* Runner.run over the pairs of one test case
InitRunnerSpec == InitAbort /\ InitSend /\ NoSession /\ NoRun /\ NoScore /\ NoWindows /\ NoPages /\ NoChild /\ NoConnect /\ NoQuery /\ NoLimiter /\ InitRunner /\ NoCli

SpecRunner == InitRunnerSpec /\ [][NextRunner]_vars

\* coding calls of the workers on the shared CLI editor
InitCliSpec == InitAbort /\ InitSend /\ NoSession /\ NoRun /\ NoScore /\ NoWindows /\ NoPages /\ NoChild /\ NoConnect /\ NoQuery /\ NoLimiter /\ NoRunner /\ InitCli

SpecCli == InitCliSpec /\ [][NextCli]_vars

\* ------------------------------------------------------------ claims C1, C2
Electors == {t \in Threads : is_termination_thread[t]}
ShutdownActors == {shutdownLog[i][1] : i \in DOMAIN shutdownLog}
PastElection == {t \in Threads : apc[t] \notin {"running", "acquire", "test", "set"}}

\* C1: in every interleaving of trigger calls exactly one caller is elected
\* and executes the shutdown body (cleanup, termination signal, setting the
\* event), each step of it once; every other caller executes none of it.
C1_ExactlyOneElector ==
    /\ Cardinality(Electors) <= 1
    /\ PastElection # {} => Cardinality(Electors) = 1
    /\ ShutdownActors \subseteq Electors
    /\ \A i, j \in DOMAIN shutdownLog : i # j => shutdownLog[i][2] # shutdownLog[j][2]
    /\ GLOBAL_TERMINATION_EVENT =>
         \E i \in DOMAIN shutdownLog :
            shutdownLog[i][2] = "notify" /\ shutdownLog[i][1] \in Electors

\* Two callers raced: one ran the whole body, the other waited and returned.
C1_Witness ==
    \E e, w \in Threads :
        /\ e # w /\ is_termination_thread[e] /\ apc[e] = "exited"
        /\ apc[w] = "returned" /\ ~is_termination_thread[w]
        /\ Len(shutdownLog) = Len(ShutdownSteps)

\* C2: a caller that found termination in progress executes no shutdown step,
\* holds no lock while it blocks on the event, and (while the process lives)
\* leaves the wait once 30 seconds have passed, whether or not the event was
\* ever set.
C2_WaiterBoundedWait ==
    \A t \in Threads :
        apc[t] \in {"wait", "returned"} =>
            /\ ~is_termination_thread[t]
            /\ t \notin ShutdownActors
            /\ GLOBAL_TERMINATION_LOCK # t
            /\ waited[t] <= WaitTimeout
            /\ (procAlive /\ apc[t] = "wait" /\ waited[t] = WaitTimeout)
                  => ENABLED WaitReturn(t)

\* A waiter returned by timeout alone: the event was never set.
C2_Witness ==
    \E t \in Threads :
        apc[t] = "returned" /\ waited[t] = WaitTimeout /\ ~GLOBAL_TERMINATION_EVENT

\* ------------------------------------------------------------ claims C3-C6
\* C3: send returns the result of the response frame whose id equals the id
\* it sent; every frame read before it had another id or none and was
\* dropped without ending the call, however many there were.
C3_MatchingResponseReturned ==
    \A t \in clients :
        LET d == delivered[t]
            n == Len(d)
        IN  /\ cpc[t] = "recv" =>
                 /\ sendResult[t] = NoResult
                 /\ \A i \in 1..n : d[i].id # command_id[t]
            /\ cpc[t] = "returned" =>
                 /\ n >= 1 /\ d[n].id = command_id[t] /\ d[n].kind # "error"
                 /\ sendResult[t].outcome = "result"
                 /\ sendResult[t].val = (IF d[n].kind = "result" THEN d[n].val ELSE "{}")
                 /\ \A i \in 1..(n - 1) : d[i].id # command_id[t]

\* The second send returned "b" after an event without id and the error
\* response of an older command were read and dropped.
C3_Witness ==
    \E t \in clients :
        /\ cpc[t] = "returned" /\ command_id[t] = 2 /\ Len(delivered[t]) = 3
        /\ delivered[t][1].id = NoId
        /\ delivered[t][2].id = 1 /\ delivered[t][2].kind = "error"
        /\ sendResult[t] = [outcome |-> "result", val |-> "b"]

\* C4: no id value is used for two sends in the process, also when several
\* workers send concurrently on different sockets.
C4_FreshIds ==
    \A i, j \in DOMAIN sentIds : i # j => sentIds[i][2] # sentIds[j][2]

\* C5: every send eventually ends (result, protocol error or timeout),
\* whatever frames the remote side sends.
C5_SendEnds ==
    \A t \in Threads : (cpc[t] = "recv") ~> (cpc[t] \in {"returned", "raised"})

\* C6: when the response with the sent id has an error field the call raises
\* that error message and returns no result; an error field of a frame with
\* another id leaves the call reading.
C6_ErrorOfMatchingResponse ==
    \A t \in clients :
        LET d == delivered[t]
            n == Len(d)
            lastIsError == n >= 1 /\ d[n].id = command_id[t] /\ d[n].kind = "error"
        IN  /\ (cpc[t] \in {"returned", "raised"} /\ lastIsError) =>
                 /\ cpc[t] = "raised"
                 /\ sendResult[t] = [outcome |-> "error", val |-> d[n].val]
            /\ sendResult[t].outcome = "error" => lastIsError
            /\ cpc[t] = "recv" => sendResult[t] = NoResult

\* The call raised the error of its own response after it had read and
\* dropped an error response carrying another id.
C6_Witness ==
    \E t \in clients :
        /\ cpc[t] = "raised" /\ sendResult[t].outcome = "error"
        /\ Len(delivered[t]) >= 2
        /\ delivered[t][1].kind = "error" /\ delivered[t][1].id \notin {NoId, command_id[t]}

\* ----------------------------------------------------------- claims C7-C10
\* C7: every call of coding runs close-and-verify before control returns to
\* the caller, whichever state the session ends in, opening the workspace
\* window included.
C7_CleanupBeforeReturn ==
    spc \in {"returned", "raised"} => cleanupRuns >= 1

\* whether, given the outputs h, the loop of variant v ends at its k-th poll
StopsAt(v, h, k) ==
    CASE v = "base" -> h[k].kind = "text" /\ "flag" \in h[k].has
      [] v = "lingma" -> h[k].kind = "text" /\ h[k].has \cap {"flag", "quota"} # {}
      [] v = "zulu" -> /\ h[k].kind = "text" /\ "flag" \notin h[k].has
                       /\ \E j \in 1..(k - 1) : h[j].kind = "text" /\ "flag" \in h[j].has

\* C8: in each variant's wait the finish probe is evaluated at most
\* floor(timeout / check_interval) times, and how often it is evaluated is
\* decided by the outputs alone: up to the first output that ends the loop,
\* or floor(timeout / check_interval) times when none does.
C8_BoundedDeterministicPolls ==
    check_interval > 0 =>
        /\ evals <= timeout \div check_interval
        /\ evals = Len(outs)
        /\ \A k \in 1..(Len(outs) - 1) : ~StopsAt(variant, outs, k)
        /\ spc = "wait" => \A k \in 1..Len(outs) : ~StopsAt(variant, outs, k)
        /\ waitResult \in {"true", "abort"} =>
               Len(outs) >= 1 /\ StopsAt(variant, outs, Len(outs))
        /\ waitResult = "false" =>
               /\ evals = timeout \div check_interval
               /\ \A k \in 1..Len(outs) : ~StopsAt(variant, outs, k)

\* The Lingma wait with timeout 3 and interval 2 polled once, clicked the
\* retry button and timed out.
C8_Witness ==
    /\ variant = "lingma" /\ timeout = 3 /\ check_interval = 2
    /\ waitResult = "false" /\ evals = 1 /\ clicks = 1

C10_FocusFailure ==
    /\ ~focusOK => sent = <<>>
    /\ err = "focus" => (~focusOK /\ focusElapsed >= FocusTimeout)
    /\ (spc \in {"returned", "raised"} /\ focusPolls > 0 /\ ~focusOK) =>
           /\ spc = "raised" /\ err = "focus"
           /\ sent = <<>>
           /\ cleanupRuns = 1

\* Ten probes, one a second, none truthy: the session raised could-not-focus
\* after one cleanup.
C10_Witness ==
    /\ spc = "raised" /\ err = "focus" /\ focusPolls = FocusTimeout
    /\ sent = <<>> /\ cleanupRuns = 1

\* C11: when the retry budget of get_page_connect is used up without a
\* connection, the session ends with the attach error after exactly
\* max_retry directory queries, discovery is not entered again, and
\* close-and-verify has run once when the error reaches the caller.
C11_AttachFailureIsFatal ==
    /\ retry <= max_retry
    /\ (err = "attach" /\ ~main_ws) =>
           /\ retry = max_retry
           /\ spc \in {"except", "finally", "raised"}
           /\ spc = "raised" => cleanupRuns = 1

\* five listings without a connectable target, the error at the caller
C11_Witness ==
    /\ spc = "raised" /\ err = "attach" /\ ~main_ws
    /\ retry = max_retry /\ cleanupRuns = 1

\* C12: when the wait ran all its iterations without the flag, nothing is
\* raised for it: coding returns normally to the caller, after
\* close-and-verify has run.
C12_TimeoutReturnsNormally ==
    waitResult = "false" =>
        /\ err = ""
        /\ spc \in {"waited", "finally", "returned"}
        /\ spc = "returned" => cleanupRuns = 1

\* three polls without the flag, then a normal return after cleanup
C12_Witness ==
    /\ waitResult = "false" /\ spc = "returned" /\ err = ""
    /\ evals = 3 /\ timeout = 3 /\ cleanupRuns = 1

\* C13: no outcome of close-and-verify changes the session's result: the
\* step out of the finally block keeps the exception in flight, and coding
\* returns normally exactly when there is none.
C13_CleanupKeepsResult ==
    [][spc = "finally" =>
          /\ err' = err
          /\ spc' = IF err = "" THEN "returned" ELSE "raised"]_vars

\* the close command failed and the target was still listed at the third
\* check, and coding returned normally
C13_Witness ==
    /\ spc = "returned" /\ err = "" /\ cleanupRuns = 1
    /\ close_error /\ still_open /\ checks = max_checks

\* C14: a poll of the Lingma wait that shows the quota signal is the last
\* one: the wait ends with the abort raised, not with True or False, and
\* no further finish probe is evaluated.
C14_QuotaAbortEscapes ==
    variant = "lingma" =>
        \A k \in 1..Len(outs) :
            QuotaSeen(outs[k]) =>
                /\ k = Len(outs)
                /\ waitResult = "abort" /\ spc = "abort"
                /\ ~ENABLED WaitPoll /\ ~ENABLED WaitExhausted

\* the retry button at the first poll, the quota paragraph at the second
C14_Witness ==
    /\ variant = "lingma" /\ Len(outs) = 2
    /\ RetrySeen(outs[1]) /\ QuotaSeen(outs[2])
    /\ waitResult = "abort" /\ clicks = 1 /\ evals = 2

\* C15: no launch of the application occurs without a close() since the
\* previous launch.
C15_CleanBeforeEveryLaunch ==
    \A i \in DOMAIN lifelog :
        lifelog[i] = "launch" => (i > 1 /\ lifelog[i - 1] = "close")

\* C16: no two coding calls are at the same time between their launch and
\* the end of their cleanup.
C16_OneSessionAtATime ==
    Cardinality({t \in Threads : bound[t]}) <= 1

\* C17: right after close() has returned, the directory lists no target
\* left over under the workspace identifier.
C17_NoLeftoverAfterClean ==
    epc = "cleaned" => ~leftover

\* C18: every socket the session opened is released by the time coding
\* returns or raises.
C18_SocketsReleased ==
    spc \in {"returned", "raised"} => (~main_ws /\ ~child_ws)

\* C19: a finish probe that raises (the remote side answered the command
\* with an error) is the last one: the session does not go on polling.
C19_ProtocolErrorEndsSession ==
    \A k \in 1..Len(outs) :
        outs[k].kind = "err" => (k = Len(outs) /\ spc # "wait")

\* C20: on an empty record list calculate_final_score returns 0.0 and
\* calculate_scenario_score without a target scenario returns an empty
\* dict, and neither raises.
C20_EmptyRecords ==
    records = <<>> =>
        /\ "final" \in calls =>
               (final_score.error = "" /\ final_score.value = Zero)
        /\ ("scenario" \in calls /\ target_scenario = None) =>
               /\ scenario_score.error = ""
               /\ scenario_score.type = "dict" /\ scenario_score.keys = {}

\* test_edge_case_empty_records: both functions have run on [] with both
\* weight dicts given and no target scenario
C20_Witness ==
    /\ records = <<>> /\ target_scenario = None
    /\ DOMAIN category_weights # {} /\ DOMAIN scenario_weights # {}
    /\ calls = {"final", "scenario"}
    /\ final_score.value = Zero /\ scenario_score.type = "dict"

\* ---------------------------------------------------------- claims C21, C22
\* the weight a key counts with: the one supplied, else 1.0
GivenWeight(ws, key) == IF key \in DOMAIN ws THEN ws[key] ELSE 1

\* the test cases of the records and the rows of one of them
TestCases == {records[i].testcase : i \in DOMAIN records}
RowsOf(tc) == {i \in DOMAIN records : records[i].testcase = tc}

\* every test case has one severity, as stat_pass_at_k_score writes them
OneSeverityPerCase ==
    \A i, j \in DOMAIN records :
        records[i].testcase = records[j].testcase =>
            records[i].severity = records[j].severity

SeverityOf(tc) == records[CHOOSE i \in RowsOf(tc) : TRUE].severity

\* the scenario-weighted mean of pass_at_k of one test case, a fraction
ScenarioWeightedMean(tc) ==
    <<Sum([i \in RowsOf(tc) |->
              records[i].pass_at_k * GivenWeight(scenario_weights, records[i].scenario)],
          RowsOf(tc)),
      PassScale * Sum([i \in RowsOf(tc) |->
                          GivenWeight(scenario_weights, records[i].scenario)],
                      RowsOf(tc))>>

\* the category-weighted mean of those means over the test cases
CategoryWeightedMean ==
    LET w == [tc \in TestCases |-> GivenWeight(category_weights, SeverityOf(tc))]
        num == RSum([tc \in TestCases |->
                        <<ScenarioWeightedMean(tc)[1] * w[tc],
                          ScenarioWeightedMean(tc)[2]>>], TestCases)
    IN <<num[1], num[2] * Sum(w, TestCases)>>

\* C21: for records of one model with pass_at_k in [0, 1] and positive
\* weights, calculate_final_score is the category-weighted mean over the
\* test cases of each case's scenario-weighted mean of pass_at_k, a missing
\* weight counting as 1.0; it lies in [0, 1]; for a single record it is that
\* record's pass_at_k.
C21_FinalScoreIsWeightedMean ==
    ("final" \in calls /\ records # <<>> /\ OneSeverityPerCase) =>
        /\ final_score.error = ""
        /\ final_score.value[2] > 0
        /\ REq(final_score.value, CategoryWeightedMean)
        /\ 0 <= final_score.value[1] /\ final_score.value[1] <= final_score.value[2]
        /\ Len(records) = 1 =>
               REq(final_score.value, <<records[1].pass_at_k, PassScale>>)

\* a high case that passed and a medium case that failed, high weighing 2:
\* the score is 2/3, not the plain mean 1/2
C21_Witness ==
    /\ "final" \in calls /\ Len(records) = 2
    /\ records[1].testcase # records[2].testcase
    /\ records[1].severity = "high" /\ records[1].pass_at_k = PassScale
    /\ records[2].severity = "medium" /\ records[2].pass_at_k = 0
    /\ DOMAIN category_weights = {"high"}
    /\ REq(final_score.value, <<2, 3>>)

\* the scenarios of the records and the rows of one of them
ScenariosPresent == {records[i].scenario : i \in DOMAIN records}
RowsIn(sc) == {i \in DOMAIN records : records[i].scenario = sc}

\* sum(pass_at_k * category weight) / sum(category weight) of a scenario
WeightedAverage(sc) ==
    <<Sum([i \in RowsIn(sc) |->
              records[i].pass_at_k * GivenWeight(category_weights, records[i].severity)],
          RowsIn(sc)),
      PassScale * Sum([i \in RowsIn(sc) |->
                          GivenWeight(category_weights, records[i].severity)],
                      RowsIn(sc))>>

PlainMean(sc) ==
    <<Sum([i \in RowsIn(sc) |-> records[i].pass_at_k], RowsIn(sc)),
      PassScale * Cardinality(RowsIn(sc))>>

\* C22: for every scenario present calculate_scenario_score gives
\* weighted_average_score = sum(pass_at_k * category weight) / sum(category
\* weight) over that scenario's records, the plain mean when no weights are
\* supplied; and the entry computed for one target scenario alone is that
\* scenario's entry of the all-scenarios result.
C22_ScenarioScoreIsWeightedMean ==
    ("scenario" \in calls /\ records # <<>>) =>
        /\ scenario_score.error = ""
        /\ target_scenario = None =>
               /\ scenario_score.type = "dict"
               /\ scenario_score.keys = ScenariosPresent
               /\ \A sc \in ScenariosPresent :
                      LET e == scenario_score.items[sc] IN
                      /\ REq(e.weighted_average_score, WeightedAverage(sc))
                      /\ REq(e.average_score, PlainMean(sc))
                      /\ e.testcase_count = Cardinality(RowsIn(sc))
                      /\ category_weights = <<>> =>
                             REq(e.weighted_average_score, e.average_score)
        /\ (target_scenario # None /\ target_scenario \in ScenariosPresent) =>
               /\ scenario_score.type = "list" /\ Len(scenario_score.items) = 1
               /\ scenario_score.items[1] =
                      calculate_scenario_score(records, None, category_weights)
                          .items[target_scenario]
               /\ REq(scenario_score.items[1].weighted_average_score,
                      WeightedAverage(target_scenario))

\* two rows of one scenario, the high one passed and the medium one failed,
\* high weighing 2: weighted average 2/3, plain mean 1/2
C22_Witness ==
    /\ "scenario" \in calls /\ target_scenario = None /\ Len(records) = 2
    /\ records[1].scenario = "fix" /\ records[2].scenario = "fix"
    /\ DOMAIN category_weights = {"high"}
    /\ REq(scenario_score.items["fix"].weighted_average_score, <<2, 3>>)
    /\ REq(scenario_score.items["fix"].average_score, <<1, 2>>)

\* ---------------------------------------------------------- claims C23, C24
StepIndex(step) == CHOOSE i \in DOMAIN ShutdownSteps : ShutdownSteps[i] = step

RECURSIVE RelatedCount(_)
RelatedCount(ps) ==
    IF ps = <<>> THEN 0
    ELSE (IF Related(Head(ps)) THEN 1 ELSE 0) + RelatedCount(Tail(ps))

Logged(step) == \E i \in 1..Len(shutdownLog) : shutdownLog[i][2] = step

\* C24: the session cleanup of the shutdown is best effort. A failure to list
\* the targets, to close one target or to terminate one process stops neither
\* the remaining targets nor the remaining processes: once the cleanup has
\* returned, every listed target was tried and terminate() was called on every
\* matching process. The termination signal is sent only after the cleanup
\* returned, whatever failed in it, and a thread that left the trigger has
\* set the event.
C24_CleanupIsBestEffort ==
    /\ wpc = "done" =>
          /\ listed => pagesTried = Len(pages)
          /\ procsTried = RelatedCount(procs)
    /\ wpc \in {"procs", "done"} /\ listed => pagesTried = Len(pages)
    /\ Logged("close") <=> (wpc = "done" /\ \A t \in Threads : apc[t] # "close")
    /\ Logged("kill") => Logged("close")
    /\ \A t \in Threads :
          /\ (procAlive /\ apc[t] = "close" /\ wpc # "done") =>
                (ENABLED ListPages \/ ENABLED ClosePage \/ ENABLED TerminateProcess)
          /\ apc[t] = "exited" => GLOBAL_TERMINATION_EVENT

\* a target whose close failed and a process whose terminate was denied came
\* first; the later target and process were still handled, the signal was
\* sent and the event is set
C24_Witness ==
    /\ wpc = "done" /\ listed
    /\ pages = <<"error", "closed">> /\ closed_count = 1
    /\ procs = <<"denied", "terminated">> /\ terminated_count = 1
    /\ Logged("kill") /\ GLOBAL_TERMINATION_EVENT
    /\ \E t \in Threads : apc[t] = "exited"

\* the listing itself failed: no target is tried, the processes still are
C24_WitnessListingFailed ==
    /\ wpc = "done" /\ ~listed /\ pages # <<>> /\ pagesTried = 0
    /\ procs = <<"error", "timeout">> /\ procsTried = 2 /\ terminated_count = 1
    /\ Logged("kill") /\ GLOBAL_TERMINATION_EVENT

\* ------------------------------------------------------------ claim C25
\* the class has a page-selector probe: its script is not empty
HasProbe(e) == get_pages_selector(e)[1] # ""

\* C25: whenever the page-selector probe script of the editor class is not
\* empty, _call_pages polls it until it is truthy or the 30 seconds are over:
\* a call that returned has evaluated the probe and seen it truthy, and the
\* poll is left out only for a class whose probe script is empty.
C25_ProbePolledWhenPresent ==
    (ppc \in {"settle", "returned"} /\ HasProbe(editor)) =>
        (pagesPolls >= 1 /\ ~flag)

\* ------------------------------------------------------------ claim C26
\* C26: get_child_pages_connect only returns a view whose title contains the
\* extension id and whose parentId is the id of a view that has the workspace
\* name in its title in the same listing; a parent seen only in an earlier
\* listing is never used.
C26_ParentFromSameListing ==
    kpc = "returned" =>
        /\ "ext" \in con.title
        /\ \E i \in 1..Len(views) :
              "ws" \in views[i].title /\ views[i].id = con.parentId

\* ------------------------------------------------------------ claim C27
\* C27: get_page_connect queries the directory at most 5 times and pauses
\* once after every unsuccessful attempt; a failed query and a listing without
\* a connectable match both count as unsuccessful; it returns a view with the
\* workspace name in its title in the very turn one is listed and accepts
\* the connection, and it raises after the fifth unsuccessful attempt.
C27_BoundedDiscovery ==
    /\ queries <= max_retry
    /\ pauses = gretry
    /\ gpc = "loop" =>
          /\ queries = gretry
          /\ (queries > 0 /\ ~queryFailed) =>
                ~\E i \in 1..Len(gviews) :
                     "ws" \in gviews[i].title /\ gviews[i].id \in reachable
    /\ gpc = "returned" =>
          /\ queries = gretry + 1
          /\ ~queryFailed
          /\ "ws" \in gcon.title /\ gcon.id \in reachable
          /\ \E i \in 1..Len(gviews) : gviews[i] = gcon
    /\ gpc = "raised" => (queries = max_retry /\ pauses = max_retry)

\* a failed query, a listing without a match and a refused connection came
\* first; the fourth query listed the workspace window and connected
C27_Witness ==
    /\ gpc = "returned" /\ queries = 4 /\ pauses = 3
    /\ gcon = [id |-> "A", parentId |-> "", title |-> {"ws"}]

\* five unsuccessful attempts, the last one a refused connection
C27_WitnessExhausted ==
    /\ gpc = "raised" /\ queries = 5 /\ ~queryFailed
    /\ \E i \in 1..Len(gviews) : "ws" \in gviews[i].title

\* ------------------------------------------------------------ claim C28
\* C28: the prompt is submitted as Input.insertText, then the Enter keyDown,
\* then the Enter keyUp, each sent only after the command before it has
\* returned and none after one that failed; nothing is sent unless the page
\* connection, the page selection, the child connection of a non-embedded
\* panel and the focus probe succeeded earlier in the same session; and the
\* prompt is inserted once.
SubmitOrder == <<"insertText", "keyDown", "keyUp">>

C28_SubmitInOrderOnce ==
    /\ [](/\ Len(sent) <= Len(SubmitOrder)
          /\ \A i \in 1..Len(sent) : sent[i] = SubmitOrder[i]
          /\ sent # <<>> =>
                (main_ws /\ selected /\ focusOK /\ (~embed => child_ws)))
    /\ [][sent' # sent =>
            (/\ spc = "insert" /\ err = ""
             /\ sent' = Append(sent, SubmitOrder[Len(sent) + 1]))]_vars

\* all three commands have gone out on a child panel and the loop is waiting
C28_Witness ==
    /\ sent = <<"insertText", "keyDown", "keyUp">> /\ spc = "wait"
    /\ ~embed /\ child_ws /\ focusOK /\ selected

\* the key-down failed: the key-up is never sent
C28_WitnessStopped ==
    /\ sent = <<"insertText", "keyDown">> /\ err = "protocol" /\ spc = "raised"

\* ------------------------------------------------------------ claim C29
\* C29: save_debug runs only when the body of coding has failed and debug is
\* set; it runs before close_windows_with_verification; it is given the
\* child socket when one was opened and the main socket otherwise; and when
\* save_debug itself goes wrong, the cleanup still runs and the caller still
\* gets the exception of the body.
C29_DebugCapture ==
    /\ [](/\ debugSaves <= 1
          /\ debugSaves = 1 =>
                (/\ debug /\ err # ""
                 /\ debug_ws = (IF child_ws THEN "child" ELSE "main")
                 /\ debug_ws = "main" => main_ws)
          /\ debugSaves = 0 => (debug_ws = "none" /\ ~debugFailed)
          /\ (debugSaves = 1 /\ spc \in {"raised", "returned"}) =>
                (spc = "raised" /\ cleanupRuns = 1))
    /\ [][/\ debugSaves' # debugSaves =>
               (cleanupRuns = 0 /\ cleanupRuns' = 0 /\ err' = err /\ spc' = "finally")
          /\ (debugSaves = 1 /\ err' # err) => FALSE]_vars

\* the focus probe never came true on a child panel with debug set: the
\* snapshot was taken from the child socket and failed, the cleanup ran and
\* the caller got the focus error
C29_Witness ==
    /\ debug /\ debugSaves = 1 /\ debug_ws = "child" /\ debugFailed
    /\ spc = "raised" /\ cleanupRuns = 1 /\ err = "focus"

\* the child connection was never made: the snapshot comes from the main socket
C29_WitnessMain ==
    /\ debug /\ debugSaves = 1 /\ debug_ws = "main" /\ ~child_ws
    /\ spc = "raised" /\ cleanupRuns = 1

\* ------------------------------------------------------------ claim C30
\* C30: close_windows_with_verification sends the window-close command and
\* then queries the directory at most 3 times: a query is followed by another
\* only when it listed the workspace; the target counts as closed at the
\* first listing without it or the first failed query, and as still open
\* only when all 3 listings had it; the queries are made even when the close
\* command failed.
C30_CloseAndVerify ==
    cleanupRuns >= 1 =>
        /\ checks \in 1..3 /\ Len(listings) = checks
        /\ \A i \in 1..(checks - 1) : listings[i] = "match"
        /\ still_open <=> (checks = 3 /\ \A i \in 1..3 : listings[i] = "match")
        /\ ~still_open => listings[checks] \in {"none", "error"}

\* the close command failed and all three listings still show the workspace
C30_Witness ==
    /\ cleanupRuns = 1 /\ close_error /\ main_ws
    /\ listings = <<"match", "match", "match">> /\ still_open

\* the second query failed: the target counts as closed and no third is made
C30_WitnessQueryFailed ==
    /\ cleanupRuns = 1 /\ ~close_error
    /\ listings = <<"match", "error">> /\ ~still_open

\* ------------------------------------------------------------ claim C31
\* the generating marker was in the text of the k-th poll
Generating(k) == outs[k].kind = "text" /\ "flag" \in outs[k].has

\* C31: the wait of the Zulu class returns True only at a poll whose output
\* is text without the generating marker and that follows a poll whose text
\* had it; while the marker has not been seen no poll ends the wait, and a
\* wait that never sees it returns False after floor(timeout /
\* check_interval) polls.
C31_TwoPhaseWait ==
    (variant = "zulu" /\ check_interval > 0) =>
        /\ is_start <=> \E k \in 1..Len(outs) : Generating(k)
        /\ waitResult = "true" =>
              /\ Len(outs) >= 2
              /\ outs[Len(outs)].kind = "text" /\ "flag" \notin outs[Len(outs)].has
              /\ \E j \in 1..(Len(outs) - 1) : Generating(j)
        /\ (spc = "waited" /\ ~\E k \in 1..Len(outs) : Generating(k)) =>
              (waitResult = "false" /\ evals = timeout \div check_interval)
        /\ waitResult = "false" => evals = timeout \div check_interval

\* the marker at the first poll, None at the second, text without it at the
\* third
C31_Witness ==
    /\ variant = "zulu" /\ waitResult = "true" /\ Len(outs) = 3
    /\ Generating(1) /\ outs[2].kind = "null"
    /\ outs[3].kind = "text" /\ "flag" \notin outs[3].has

\* text without the marker at every poll: a timeout, never a success
C31_WitnessNeverStarted ==
    /\ variant = "zulu" /\ waitResult = "false" /\ Len(outs) = 3 /\ ~is_start
    /\ \A k \in 1..3 : outs[k].kind = "text"

\* ------------------------------------------------------------ claim C32
\* the polls so far whose text shows the retry button
RetryPolls == {k \in 1..Len(outs) : outs[k].kind = "text" /\ "retry" \in outs[k].has}
\* those of them whose text does not show the token-limit paragraph as well
RetryPollsNoQuota == {k \in RetryPolls : "quota" \notin outs[k].has}

\* C32 as stated: in the wait of the Lingma class every poll whose text shows
\* the retry button clicks it once.
C32_EveryRetryPollClicks ==
    variant = "lingma" => clicks = Cardinality(RetryPolls)

\* C32, amended: in the wait of the Lingma class every poll whose text shows
\* the retry button and not the token-limit paragraph clicks it once; the
\* poll then goes on to the test of the flag, so it returns True exactly when
\* its text has the flag and otherwise the loop goes on; a click that failed
\* changes none of this.
C32_RetryClickedThenCheck ==
    variant = "lingma" =>
        /\ clicks = Cardinality(RetryPollsNoQuota)
        /\ clickFailed => clicks >= 1
        /\ waitResult = "true" <=>
              (/\ Len(outs) >= 1 /\ outs[Len(outs)].kind = "text"
               /\ "flag" \in outs[Len(outs)].has /\ "quota" \notin outs[Len(outs)].has)
        /\ \A k \in RetryPollsNoQuota :
              "flag" \notin outs[k].has =>
                  (k < Len(outs) \/ spc = "wait" \/ waitResult = "false")

\* the click failed at the first poll, the second poll showed the button
\* again together with the flag: clicked again and returned True
C32_Witness ==
    /\ variant = "lingma" /\ Len(outs) = 2 /\ clicks = 2 /\ clickFailed
    /\ outs[1] = [kind |-> "text", has |-> {"retry"}]
    /\ outs[2] = [kind |-> "text", has |-> {"retry", "flag"}]
    /\ waitResult = "true"

\* ------------------------------------------------------------ claim C33
\* C33: a call of aquery makes at most 5 attempts; it goes on to another
\* attempt only after LLMTimeoutError, LLMRateLimitError or LLMAPIError; the
\* wait before the next attempt is the retry-after value of the server when
\* it sent one and min(10, 2^attempt) otherwise; the exception of the last
\* attempt is what the caller gets.
C33_RetryPolicy ==
    /\ attempt_number <= 5 /\ Len(outcomes) = attempt_number
    /\ \A i \in 1..(Len(outcomes) - 1) :
          outcomes[i].type \in {"LLMAPIError", "LLMRateLimitError", "LLMTimeoutError"}
    /\ qpc = "raised" =>
          (outcomes[Len(outcomes)].type = "LLMBaseException" \/ attempt_number = 5)
    /\ \A i \in 1..Len(qwaits) :
          qwaits[i] = IF outcomes[i].cause.retry_after # <<>>
                      THEN outcomes[i].cause.retry_after[1]
                      ELSE (IF 2^i < 10 THEN 2^i ELSE 10)

\* ------------------------------------------------------------ claim C34
\* C34: the bucket never holds fewer than 0 or more than burst_size tokens,
\* and however many acquire calls run at once no token is taken twice: the
\* calls that have returned never outnumber the tokens the bucket started
\* with plus those refilled so far.
C34_TokenBucket ==
    /\ tokens >= 0 /\ tokens <= burst_size
    /\ acquired <= burst_size + refilled

\* ------------------------------------------------------------ claim C35
InLockedBlock(t) == apc[t] \in {"test", "set", "release"}
InShutdownBody(t) == apc[t] \in {"close", "exitflag", "join", "kill", "cleanup", "except", "notify", "exit"}
ShutdownAdvance(t) == BodyStep(t) \/ SendSigterm(t) \/ NotifyWaiters(t) \/ SysExit(t)

\* C35: the abort protocol cannot deadlock. The mutex is held only during
\* the election test-and-set and is free while the shutdown body runs; the
\* elected worker's next step never waits for anything, whatever the other
\* workers do (all of them may be blocked on the completion event); and a
\* worker that waits for the mutex waits only for a worker that is inside the
\* election block, never for the shutdown. A worker blocked on the event is
\* released by the event or by the timeout of its wait.
C35_NoDeadlock ==
    /\ \A t \in Threads : GLOBAL_TERMINATION_LOCK = t => InLockedBlock(t)
    /\ \A t \in Threads : InShutdownBody(t) => GLOBAL_TERMINATION_LOCK # t
    /\ procAlive =>
         \A t \in Threads :
            /\ InShutdownBody(t) => ENABLED ShutdownAdvance(t)
            /\ InLockedBlock(t) =>
                 ENABLED (TestInProgress(t) \/ SetInProgress(t) \/ LockRelease(t))
            /\ apc[t] = "acquire" =>
                 \/ ENABLED LockAcquire(t)
                 \/ \E h \in Threads \ {t} :
                       GLOBAL_TERMINATION_LOCK = h /\ InLockedBlock(h)
            /\ apc[t] = "wait" =>
                 ENABLED (Tick \/ \E u \in Threads : WaitReturn(u))

\* the elected worker is in the shutdown body, the completion event is not
\* yet set and every other worker is blocked in Event.wait
C35_Witness ==
    /\ procAlive /\ ~GLOBAL_TERMINATION_EVENT
    /\ \E e \in Threads :
          /\ apc[e] = "join" /\ is_termination_thread[e]
          /\ \A t \in Threads \ {e} : apc[t] = "wait"

\* ------------------------------------------------------------ claim C36
\* C36: the abort state is one-shot. Once the in-progress flag is true no
\* step makes it false, once the completion event is set no step clears it,
\* and the event is never set while the flag is false.
C36_OneShot ==
    /\ [](GLOBAL_TERMINATION_EVENT => GLOBAL_TERMINATION_IN_PROGRESS)
    /\ [][/\ GLOBAL_TERMINATION_IN_PROGRESS => GLOBAL_TERMINATION_IN_PROGRESS'
          /\ GLOBAL_TERMINATION_EVENT => GLOBAL_TERMINATION_EVENT']_vars

\* the event has been set and a second worker has since gone through the
\* trigger and come back from Event.wait before its timeout
C36_Witness ==
    /\ GLOBAL_TERMINATION_IN_PROGRESS /\ GLOBAL_TERMINATION_EVENT
    /\ \E t \in Threads :
          apc[t] = "returned" /\ ~is_termination_thread[t] /\ waited[t] < WaitTimeout

\* ------------------------------------------------------------ claim C37
\* C37: in the Lingma wait the quota check precedes the completion check. A
\* poll whose content has both the quota signal and the completion marker
\* is the last poll of the wait and ends it with the abort, never with
\* success.
C37_QuotaBeforeFlag ==
    (variant = "lingma" /\ trace) =>
        \A k \in 1..Len(outs) :
            ("quota" \in outs[k].has /\ "flag" \in outs[k].has) =>
                /\ k = Len(outs)
                /\ waitResult = "abort"
                /\ spc # "waited"

\* a second poll returned text with both markers and the wait aborted
C37_Witness ==
    /\ variant = "lingma" /\ trace /\ Len(outs) = 2
    /\ outs[2].has = {"quota", "flag"}
    /\ "quota" \notin outs[1].has
    /\ waitResult = "abort"

\* ------------------------------------------------------------ claim C38
\* C38: once Runner.run has returned for a (cycle, scenario), the test case
\* holds a security result for it; the security evaluation was run only if
\* the functional result passed, and in every other outcome the security
\* result held is a failed one.
C38_SecurityResultHeld ==
    \A k \in RunKeys :
        /\ ended[k] = "returned" => SecResults[k] # <<>>
        /\ k \in sec_evaluated =>
              FunResults[k] # <<>> /\ FunctionPassed(FunResults[k][1])
        /\ (ended[k] = "returned" /\ k \notin sec_evaluated /\ SecResults[k] # <<>>) =>
              ~SecResults[k][1].success

\* ------------------------------------------------------------ claim C39
\* C39: with several workers on the one shared CLI editor, what a coding
\* call reports (finish flag, return code, output) is what the process of
\* this very call produced, never what another worker's run left.
C39_OwnResultReported ==
    \A t \in Threads :
        reported[t] # NoReport =>
            /\ reported[t][1].finish
            /\ reported[t][1].return_code = own_code[t]
            /\ reported[t][1].std_out \in {0, t}

\* ------------------------------------------------------------ claim C40
\* C40: when run_cli has returned, the finish flag is true and the process
\* the call spawned no longer runs, whichever path the call took (normal
\* exit, timeout, spawn failure, communication error); after a timeout or
\* an error the return code the call left is -1.
C40_FinishedAndStopped ==
    \A t \in Threads :
        clipc[t] = "report" =>
            /\ finish
            /\ proc[t] # "running"
            /\ path[t] \in {"exit", "timeout", "spawn failure", "error"}
            /\ (path[t] # "exit" /\ rc_writer = t) => return_code = -1

\* a call whose communicate raised has returned with its process gone and
\* its own -1 in place, while another worker's call ran into the timeout
C40_Witness ==
    \E t \in Threads :
        /\ clipc[t] = "report" /\ path[t] = "error" /\ proc[t] = "exited"
        /\ rc_writer = t /\ return_code = -1
        /\ \E u \in Threads \ {t} : path[u] = "timeout"

====
